---- MODULE Spec2Model ----
(* Blocker lifecycle of react-action-guard-tanstack: the useBlockingManager   *)
(* effect of every adapter instance, the blocker identities the adapters      *)
(* derive from their keys, and the blocking store they write to.              *)
EXTENDS Integers, Sequences, FiniteSets, TLC

VARIABLES status, props, effectId, wasBlockedRef, isMountedRef,
          activeBlockers, timers, last, hist

vars == <<status, props, effectId, wasBlockedRef, isMountedRef,
          activeBlockers, timers, last, hist>>

(* ------------------------------------------------------------------------ *)
(* Bounds                                                                     *)
(* ------------------------------------------------------------------------ *)
NumInst == 2

Inst == 1..NumInst

(* ------------------------------------------------------------------------ *)
(* Keys and identities                                                        *)
(* ------------------------------------------------------------------------ *)
Prim(s) == [kind |-> "prim", prim |-> s, props |-> <<>>]

Obj(ps) == [kind |-> "obj", prim |-> "", props |-> ps]

KeyTest == <<Prim("test")>>

KeySaveUser == <<Prim("saveUser"), Prim("123")>>

KeyInfiniteTest == <<Prim("infinite-test")>>

KeySaveUser456 == <<Prim("saveUser"), Prim("456")>>

KeyTest1 == <<Prim("test"), Prim("1")>>

KeyTest2 == <<Prim("test"), Prim("2")>>

(* a key with an object, and the same key with the properties written in   *)
(* the other order                                                          *)
KeyUser == <<Prim("user"), Obj(<< <<"id", "123">>, <<"name", "a">> >>)>>

KeyUserReordered == <<Prim("user"), Obj(<< <<"name", "a">>, <<"id", "123">> >>)>>

(* position of a property name in the order Object.keys(..).sort() gives *)
PropRank(name) == CASE name = "id" -> 1 [] name = "name" -> 2 [] OTHER -> 3

RECURSIVE InsertProp(_, _)
InsertProp(p, sorted) ==
  IF sorted = <<>> THEN <<p>>
  ELSE IF PropRank(p[1]) <= PropRank(Head(sorted)[1])
       THEN <<p>> \o sorted
       ELSE <<Head(sorted)>> \o InsertProp(p, Tail(sorted))

RECURSIVE SortProps(_)
SortProps(ps) ==
  IF ps = <<>> THEN <<>> ELSE InsertProp(Head(ps), SortProps(Tail(ps)))

(* hashKey of @tanstack/react-query: JSON.stringify with the properties of  *)
(* every plain object sorted by name                                        *)
hashKey(key) ==
  [n \in 1..Len(key) |->
     IF key[n].kind = "obj" THEN Obj(SortProps(key[n].props)) ELSE key[n]]

(* an identity `${prefix}-${hash}` or `${prefix}-${useId()}` *)
NoId == [prefix |-> "", hash |-> <<>>, token |-> 0]

(* faulty variant: one token handed to every component instance *)
useIdShared(i) == 1

(* faulty variant: a token regenerated on a render that follows a blocking one *)
useIdPerRender(i) == IF wasBlockedRef[i] THEN i + NumInst ELSE i

(* useId(): one token per component instance *)
useId(i) == i

(* the identity of a batch adapter: the bare useId() token *)
useRandomBlockerId(i) == [prefix |-> "", hash |-> <<>>, token |-> useId(i)]

(* faulty variant: the identity built with JSON.stringify(queryKey), which keeps *)
(* the properties of an object in insertion order                          *)
useQueryBlockerIdStringify(prefix, queryKey) ==
  [prefix |-> prefix, hash |-> queryKey, token |-> 0]

(* faulty variant: the identity built from the prefix alone *)
useQueryBlockerIdPrefixOnly(prefix, queryKey) ==
  [prefix |-> prefix, hash |-> <<>>, token |-> 0]

useQueryBlockerId(prefix, queryKey) ==
  [prefix |-> prefix, hash |-> hashKey(queryKey), token |-> 0]

(* faulty variant: the identity built with JSON.stringify(mutationKey), which keeps *)
(* the properties of an object in insertion order                          *)
useMutationBlockerIdStringify(prefix, hasKey, mutationKey, i) ==
  IF hasKey
  THEN [prefix |-> prefix, hash |-> mutationKey, token |-> 0]
  ELSE [prefix |-> prefix, hash |-> <<>>, token |-> useId(i)]

useMutationBlockerId(prefix, hasKey, mutationKey, i) ==
  IF hasKey
  THEN [prefix |-> prefix, hash |-> hashKey(mutationKey), token |-> 0]
  ELSE [prefix |-> prefix, hash |-> <<>>, token |-> useId(i)]

(* what an instance is: the adapter variant and the key it was given *)
Source(variant, hasKey, key) == [variant |-> variant, hasKey |-> hasKey, key |-> key]

QueryTest == Source("query", TRUE, KeyTest)

MutationSaveUser == Source("mutation", TRUE, KeySaveUser)

MutationUser == Source("mutation", TRUE, KeyUser)

MutationUserReordered == Source("mutation", TRUE, KeyUserReordered)

MutationNoKey == Source("mutation", FALSE, <<>>)

QueryTest1 == Source("query", TRUE, KeyTest1)

QueryTest2 == Source("query", TRUE, KeyTest2)

QueryUser == Source("query", TRUE, KeyUser)

QueryUserReordered == Source("query", TRUE, KeyUserReordered)

MutationSaveUser456 == Source("mutation", TRUE, KeySaveUser456)

InfiniteTest == Source("infinite-query", TRUE, KeyInfiniteTest)

(* a batch of queries: useBlockingQueries takes no key of its own *)
Queries == Source("queries", FALSE, <<>>)

(* a paginated-read and a write adapter given the key of QueryTest *)
InfiniteKeyTest == Source("infinite-query", TRUE, KeyTest)

MutationKeyTest == Source("mutation", TRUE, KeyTest)

(* faulty variant: the paginated-read adapter passes the prefix of the     *)
(* single-read adapter                                                      *)
BlockerIdOnePrefix(src, i) ==
  IF src.variant = "query"
  THEN useQueryBlockerId("query", src.key)
  ELSE IF src.variant = "infinite-query"
  THEN useQueryBlockerId("query", src.key)
  ELSE IF src.variant = "queries"
  THEN useRandomBlockerId(i)
  ELSE useMutationBlockerId("mutation", src.hasKey, src.key, i)

(* the blockerId computed by the adapter of instance i *)
BlockerId(src, i) ==
  IF src.variant = "query"
  THEN useQueryBlockerId("query", src.key)
  ELSE IF src.variant = "infinite-query"
  THEN useQueryBlockerId("infinite-query", src.key)
  ELSE IF src.variant = "queries"
  THEN useRandomBlockerId(i)
  ELSE useMutationBlockerId("mutation", src.hasKey, src.key, i)

(* ------------------------------------------------------------------------ *)
(* An identity as the string the template literal builds, character by       *)
(* character; the content of a string of the key is one element              *)
(* ------------------------------------------------------------------------ *)
(* the characters of a prefix the adapters pass *)
PrefixChars(prefix) ==
  CASE prefix = "query" -> <<"q", "u", "e", "r", "y">>
    [] prefix = "infinite-query" ->
         <<"i", "n", "f", "i", "n", "i", "t", "e", "-", "q", "u", "e", "r", "y">>
    [] prefix = "mutation" -> <<"m", "u", "t", "a", "t", "i", "o", "n">>
    [] OTHER -> <<>>

(* JSON text of the properties of an object from the k-th on *)
RECURSIVE PropsText(_, _)
PropsText(ps, k) ==
  IF k > Len(ps) THEN <<>>
  ELSE (IF k > 1 THEN <<",">> ELSE <<>>)
       \o <<"\"", ps[k][1], "\"", ":", "\"", ps[k][2], "\"">>
       \o PropsText(ps, k + 1)

(* JSON text of the elements of a key from the k-th on *)
RECURSIVE ElementsText(_, _)
ElementsText(key, k) ==
  IF k > Len(key) THEN <<>>
  ELSE (IF k > 1 THEN <<",">> ELSE <<>>)
       \o (IF key[k].kind = "obj"
           THEN <<"{">> \o PropsText(key[k].props, 1) \o <<"}">>
           ELSE <<"\"", key[k].prim, "\"">>)
       \o ElementsText(key, k + 1)

(* the string a hashed key is: a JSON array *)
HashText(hash) == <<"[">> \o ElementsText(hash, 1) \o <<"]">>

(* the string useId() returns for a token *)
TokenText(token) == <<":", "r", ToString(token), ":">>

(* `${prefix}-${hashKey(key)}`, `${prefix}-${useId()}` or the bare useId() *)
IdText(id) ==
  IF id.prefix = "" THEN TokenText(id.token)
  ELSE PrefixChars(id.prefix) \o <<"-">>
       \o (IF id.token # 0 THEN TokenText(id.token) ELSE HashText(id.hash))

(* ------------------------------------------------------------------------ *)
(* Options handed to useBlockingManager                                       *)
(* ------------------------------------------------------------------------ *)
Timeouts == {0, 50}

Metas ==
  { [scope |-> "test", reason |-> "Loading data...", priority |-> 10],
    [scope |-> "global", reason |-> "Saving changes...", priority |-> 30] }

OptionsOf(sources, metas, timeouts) ==
  { [src |-> s, shouldBlock |-> b, scope |-> m.scope, reason |-> m.reason,
     priority |-> m.priority, timeout |-> t] :
       s \in sources, b \in BOOLEAN, m \in metas, t \in timeouts }

MetaSaving == [scope |-> "test", reason |-> "Saving changes...", priority |-> 30]

(* a read adapter with every option free, next to a write adapter with an  *)
(* unrelated key                                                            *)
Options ==
  OptionsOf({QueryTest}, Metas, Timeouts) \cup OptionsOf({MutationSaveUser}, {MetaSaving}, {0})

(* instances that all use one query key *)
SharedOptions == OptionsOf({QueryTest}, Metas, {0})

(* an instance that blocks, stops blocking and blocks again, with a timeout *)
RecreateOptions == OptionsOf({QueryTest}, {MetaSaving}, Timeouts)

(* instances whose entry always carries a timeout *)
ExpiryOptions == OptionsOf({QueryTest}, Metas, {50})

(* write adapters with equal keys, structurally equal keys, or no key, and *)
(* batch adapters                                                          *)
IdentityOptions ==
  OptionsOf({MutationSaveUser, MutationUser, MutationUserReordered, MutationNoKey,
             Queries}, {MetaSaving}, {0})

(* one read adapter whose key changes, without timeout *)
EarlierOptions ==
  OptionsOf({QueryTest1, QueryTest2, QueryUser, QueryUserReordered}, Metas, {0})

(* adapters of the three keyed variants given one key, and others *)
VariantsOptions ==
  OptionsOf({QueryTest, InfiniteKeyTest, MutationKeyTest, QueryUser, MutationNoKey},
            {MetaSaving}, {0})

(* read and write adapters with different keys and with structurally equal keys *)
KeysOptions ==
  OptionsOf({QueryTest1, QueryTest2, QueryUser, QueryUserReordered,
             MutationSaveUser, MutationSaveUser456}, {MetaSaving}, {0})

NoOptions ==
  [src |-> Source("none", FALSE, <<>>), shouldBlock |-> FALSE, scope |-> "test",
   reason |-> "Loading data...", priority |-> 10, timeout |-> 0]

MetaOf(p) == [scope |-> p.scope, reason |-> p.reason, priority |-> p.priority]

(* ------------------------------------------------------------------------ *)
(* resolveBlockingReason: the reason an adapter hands to the manager          *)
(* ------------------------------------------------------------------------ *)
MaxStateReasons == 3

(* an optional string that was not given *)
Undefined == "undefined"

Reasons == {"A", "B", "C"}

StateReasons == [condition : BOOLEAN, reason : Reasons \cup {Undefined}]

RECURSIVE SeqsUpTo(_, _)
SeqsUpTo(S, n) ==
  IF n = 0 THEN {<<>>}
  ELSE LET shorter == SeqsUpTo(S, n - 1)
       IN shorter \cup {Append(s, x) : s \in {q \in shorter : Len(q) = n - 1}, x \in S}

ReasonConfigs ==
  [defaultReason : {"Default"}, stateReasons : SeqsUpTo(StateReasons, MaxStateReasons)]

(* the loop of resolveBlockingReason from the k-th pair on *)
RECURSIVE ResolveFrom(_, _)
ResolveFrom(config, k) ==
  IF k > Len(config.stateReasons) THEN config.defaultReason
  ELSE IF config.stateReasons[k].condition /\ config.stateReasons[k].reason # Undefined
       THEN config.stateReasons[k].reason
       ELSE ResolveFrom(config, k + 1)

(* faulty variant: an empty reason string counts as a missing one *)
resolveBlockingReasonTruthy(config) ==
  LET hits == {k \in DOMAIN config.stateReasons :
                 /\ config.stateReasons[k].condition
                 /\ config.stateReasons[k].reason \notin {Undefined, ""}}
      first == CHOOSE k \in hits : \A h \in hits : k <= h
  IN IF hits = {} THEN config.defaultReason ELSE config.stateReasons[first].reason

(* faulty variant: the first pair whose condition holds decides, with the  *)
(* default in place of a missing reason                                     *)
resolveBlockingReasonFirstCondition(config) ==
  LET hits == {k \in DOMAIN config.stateReasons : config.stateReasons[k].condition}
      first == CHOOSE k \in hits : \A h \in hits : k <= h
  IN IF hits = {} \/ config.stateReasons[first].reason = Undefined
     THEN config.defaultReason
     ELSE config.stateReasons[first].reason

resolveBlockingReason(config) == ResolveFrom(config, 1)

(* ------------------------------------------------------------------------ *)
(* useBlockingQuery: what the adapter derives from blockingConfig and the     *)
(* query result                                                               *)
(* ------------------------------------------------------------------------ *)
(* an optional boolean or number: <<>> when not given, <<v>> when given *)
NotGiven == <<>>

Given(v) == <<v>>

DefaultTo(v, d) == IF v = NotGiven THEN d ELSE v[1]

Toggles == {NotGiven, Given(TRUE), Given(FALSE)}

(* the flags of a query result the adapter reads *)
QueryResult(isLoading, isFetching, isError) ==
  [isLoading |-> isLoading, isFetching |-> isFetching, isError |-> isError]

(* a blockingConfig of a read adapter; timeout 0 stands for no timeout *)
QueryConfig(onLoading, onFetching, onError, reason, reasonOnLoading, reasonOnFetching, reasonOnError, priority) ==
  [scope |-> "test", onLoading |-> onLoading, onFetching |-> onFetching,
   onError |-> onError, reason |-> reason, reasonOnLoading |-> reasonOnLoading,
   reasonOnFetching |-> reasonOnFetching, reasonOnError |-> reasonOnError,
   priority |-> priority, timeout |-> 0]

(* faulty variant: background refetches block unless switched off *)
QueryDefaultsFetchingOn ==
  [reason |-> "Loading data...", priority |-> 10,
   onLoading |-> TRUE, onFetching |-> TRUE, onError |-> FALSE]

(* the defaults of the destructured blockingConfig of useBlockingQuery *)
QueryDefaults ==
  [reason |-> "Loading data...", priority |-> 10,
   onLoading |-> TRUE, onFetching |-> FALSE, onError |-> FALSE]

(* faulty variant: the fetching trigger without the exclusion of the first load *)
useBlockingQueryFetchingWhileLoading(src, config, query) ==
  LET onLoading == DefaultTo(config.onLoading, QueryDefaults.onLoading)
      onFetching == DefaultTo(config.onFetching, QueryDefaults.onFetching)
      onError == DefaultTo(config.onError, QueryDefaults.onError)
  IN [src |-> src,
      shouldBlock |-> \/ onLoading /\ query.isLoading
                      \/ onFetching /\ query.isFetching
                      \/ onError /\ query.isError,
      scope |-> config.scope,
      reason |-> IF config.reason = Undefined THEN QueryDefaults.reason
                 ELSE config.reason,
      priority |-> DefaultTo(config.priority, QueryDefaults.priority),
      timeout |-> config.timeout, config |-> config, result |-> query]

(* faulty variant: the adapter marks the query as settled while it blocks *)
useBlockingQuerySettlesResult(src, config, query) ==
  LET onLoading == DefaultTo(config.onLoading, QueryDefaults.onLoading)
      onFetching == DefaultTo(config.onFetching, QueryDefaults.onFetching)
      onError == DefaultTo(config.onError, QueryDefaults.onError)
      shouldBlock ==
        \/ onLoading /\ query.isLoading
        \/ onFetching /\ query.isFetching /\ ~query.isLoading
        \/ onError /\ query.isError
  IN [src |-> src, shouldBlock |-> shouldBlock, scope |-> config.scope,
      reason |-> IF config.reason = Undefined THEN QueryDefaults.reason
                 ELSE config.reason,
      priority |-> DefaultTo(config.priority, QueryDefaults.priority),
      timeout |-> config.timeout, config |-> config,
      result |-> IF shouldBlock THEN [query EXCEPT !.isFetching = FALSE] ELSE query]

(* faulty variant: a state-specific reason counts only when its trigger is on *)
useBlockingQueryGatedReasons(src, config, query) ==
  LET reason == IF config.reason = Undefined THEN QueryDefaults.reason
                ELSE config.reason
      onLoading == DefaultTo(config.onLoading, QueryDefaults.onLoading)
      onFetching == DefaultTo(config.onFetching, QueryDefaults.onFetching)
      onError == DefaultTo(config.onError, QueryDefaults.onError)
      loading == onLoading /\ query.isLoading
      fetching == onFetching /\ query.isFetching /\ ~query.isLoading
      failed == onError /\ query.isError
  IN [src |-> src, shouldBlock |-> loading \/ fetching \/ failed,
      scope |-> config.scope,
      reason |-> resolveBlockingReason(
                   [defaultReason |-> reason,
                    stateReasons |->
                      << [condition |-> loading, reason |-> config.reasonOnLoading],
                         [condition |-> fetching, reason |-> config.reasonOnFetching],
                         [condition |-> failed, reason |-> config.reasonOnError] >>]),
      priority |-> DefaultTo(config.priority, QueryDefaults.priority),
      timeout |-> config.timeout, config |-> config, result |-> query]

(* the options useBlockingQuery hands to useBlockingManager; config and     *)
(* result record what they were derived from                                *)
useBlockingQuery(src, config, query) ==
  LET reason == IF config.reason = Undefined THEN QueryDefaults.reason
                ELSE config.reason
      priority == DefaultTo(config.priority, QueryDefaults.priority)
      onLoading == DefaultTo(config.onLoading, QueryDefaults.onLoading)
      onFetching == DefaultTo(config.onFetching, QueryDefaults.onFetching)
      onError == DefaultTo(config.onError, QueryDefaults.onError)
      shouldBlock ==
        \/ onLoading /\ query.isLoading
        \/ onFetching /\ query.isFetching /\ ~query.isLoading
        \/ onError /\ query.isError
      currentReason ==
        resolveBlockingReason(
          [defaultReason |-> reason,
           stateReasons |->
             << [condition |-> query.isLoading, reason |-> config.reasonOnLoading],
                [condition |-> query.isFetching /\ ~query.isLoading,
                 reason |-> config.reasonOnFetching],
                [condition |-> query.isError, reason |-> config.reasonOnError] >>])
  IN [src |-> src, shouldBlock |-> shouldBlock, scope |-> config.scope,
      reason |-> currentReason, priority |-> priority, timeout |-> config.timeout,
      config |-> config, result |-> query]

(* every combination of the three toggles, with no reason given *)
ToggleConfigs ==
  { QueryConfig(l, f, e, Undefined, Undefined, Undefined, Undefined, NotGiven) :
      l \in Toggles, f \in Toggles, e \in Toggles }

(* every combination of the three flags *)
FlagCombinations ==
  { QueryResult(l, f, e) : l \in BOOLEAN, f \in BOOLEAN, e \in BOOLEAN }

ToggleOptions ==
  { useBlockingQuery(QueryTest, c, q) : c \in ToggleConfigs, q \in FlagCombinations }

(* ------------------------------------------------------------------------ *)
(* The query engine as the adapter observes it: a first load, then success   *)
(* or failure, then background refetches                                     *)
(* ------------------------------------------------------------------------ *)
Loading == QueryResult(TRUE, TRUE, FALSE)

Success == QueryResult(FALSE, FALSE, FALSE)

Refetching == QueryResult(FALSE, TRUE, FALSE)

Failed == QueryResult(FALSE, FALSE, TRUE)

FailedRefetching == QueryResult(FALSE, TRUE, TRUE)

(* the results a query can show *)
QueryStates == {Loading, Success, Refetching, Failed, FailedRefetching}

(* the results a query in state q can show next *)
QueryNext(q) ==
  IF q = Loading THEN {Success, Failed}
  ELSE IF q = Success THEN {Refetching}
  ELSE IF q = Failed THEN {FailedRefetching}
  ELSE {Success, Failed}

(* blockingConfigs of a read adapter: each toggle at its default or         *)
(* switched, each reason given or not                                       *)
QueryConfigs ==
  { QueryConfig(l, f, e, r, rl, rf, re, pr) :
      l \in {NotGiven, Given(FALSE)}, f \in {NotGiven, Given(TRUE)},
      e \in {NotGiven, Given(TRUE)}, r \in {Undefined, "A"},
      rl \in {Undefined, "B"}, rf \in {Undefined, "C"}, re \in {Undefined, "D"},
      pr \in {NotGiven} }

(* ------------------------------------------------------------------------ *)
(* useBlockingMutation: what the adapter derives from blockingConfig and the  *)
(* mutation result, and the mutation as the adapter observes it               *)
(* ------------------------------------------------------------------------ *)
MutationResult(st) ==
  [status |-> st, isPending |-> st = "pending", isError |-> st = "error"]

(* the results a mutation in state m can show next: mutate(), its outcome,  *)
(* reset()                                                                  *)
MutationNext(m) ==
  IF m.status = "idle" THEN {MutationResult("pending")}
  ELSE IF m.status = "pending" THEN {MutationResult("success"), MutationResult("error")}
  ELSE {MutationResult("pending"), MutationResult("idle")}

(* a blockingConfig of a write adapter; timeout 0 stands for no timeout *)
MutationConfig(onError, reason, reasonOnPending, reasonOnError, priority) ==
  [scope |-> "test", onError |-> onError, reason |-> reason,
   reasonOnPending |-> reasonOnPending, reasonOnError |-> reasonOnError,
   priority |-> priority, timeout |-> 0]

(* the configurations the type of blockingConfig admits: reasonOnError only *)
(* with onError: true                                                       *)
MutationConfigs ==
  { MutationConfig(e, r, rp, re, NotGiven) :
      e \in Toggles, r \in {Undefined, "A"}, rp \in {Undefined, "B"},
      re \in {Undefined} }
  \cup
  { MutationConfig(Given(TRUE), r, rp, "C", NotGiven) :
      r \in {Undefined, "A"}, rp \in {Undefined, "B"} }

(* faulty variant: a failed mutation blocks unless switched off *)
MutationDefaultsErrorOn ==
  [reason |-> "Saving changes...", priority |-> 30, onError |-> TRUE]

(* the defaults of the destructured blockingConfig of useBlockingMutation *)
MutationDefaults ==
  [reason |-> "Saving changes...", priority |-> 30, onError |-> FALSE]

(* the options useBlockingMutation hands to useBlockingManager *)
useBlockingMutation(src, config, mutation) ==
  LET reason == IF config.reason = Undefined THEN MutationDefaults.reason
                ELSE config.reason
      priority == DefaultTo(config.priority, MutationDefaults.priority)
      onError == DefaultTo(config.onError, MutationDefaults.onError)
      shouldBlock == mutation.isPending \/ (onError /\ mutation.isError)
      currentReason ==
        resolveBlockingReason(
          [defaultReason |-> reason,
           stateReasons |->
             << [condition |-> mutation.isPending, reason |-> config.reasonOnPending],
                [condition |-> mutation.isError, reason |-> config.reasonOnError] >>])
  IN [src |-> src, shouldBlock |-> shouldBlock, scope |-> config.scope,
      reason |-> currentReason, priority |-> priority, timeout |-> config.timeout,
      config |-> config, result |-> mutation]

(* ------------------------------------------------------------------------ *)
(* useBlockingQueries: one adapter for a batch of queries                     *)
(* ------------------------------------------------------------------------ *)
BatchSize == 2

(* the results of the members of a batch *)
BatchResults(n, S) == {r \in SeqsUpTo(S, n) : Len(r) = n}

(* the batches that can follow results: one member changes state *)
BatchNext(results) ==
  UNION { { [results EXCEPT ![k] = q] : q \in QueryNext(results[k]) } :
            k \in DOMAIN results }

(* faulty variant: counts the members only when every one of them is loading *)
loadingCountWhenAll(results) ==
  IF \A k \in DOMAIN results : results[k].isLoading THEN Len(results) ELSE 0

loadingCount(results) ==
  Cardinality({k \in DOMAIN results : results[k].isLoading})

(* faulty variant: counts every fetching member, those in their first load included *)
fetchingCountWithLoading(results) ==
  Cardinality({k \in DOMAIN results : results[k].isFetching})

fetchingCount(results) ==
  Cardinality({k \in DOMAIN results : results[k].isFetching /\ ~results[k].isLoading})

errorCount(results) ==
  Cardinality({k \in DOMAIN results : results[k].isError})

(* the defaults of the destructured blockingConfig of useBlockingQueries *)
QueriesDefaults ==
  [reason |-> "Loading queries...", priority |-> 10,
   onLoading |-> TRUE, onFetching |-> FALSE, onError |-> FALSE]

(* the options useBlockingQueries hands to useBlockingManager *)
useBlockingQueries(src, config, results) ==
  LET reason == IF config.reason = Undefined THEN QueriesDefaults.reason
                ELSE config.reason
      priority == DefaultTo(config.priority, QueriesDefaults.priority)
      onLoading == DefaultTo(config.onLoading, QueriesDefaults.onLoading)
      onFetching == DefaultTo(config.onFetching, QueriesDefaults.onFetching)
      onError == DefaultTo(config.onError, QueriesDefaults.onError)
      shouldBlock ==
        \/ onLoading /\ loadingCount(results) > 0
        \/ onFetching /\ fetchingCount(results) > 0
        \/ onError /\ errorCount(results) > 0
      currentReason ==
        resolveBlockingReason(
          [defaultReason |-> reason,
           stateReasons |->
             << [condition |-> loadingCount(results) > 0,
                 reason |-> config.reasonOnLoading],
                [condition |-> fetchingCount(results) > 0,
                 reason |-> config.reasonOnFetching],
                [condition |-> errorCount(results) > 0,
                 reason |-> config.reasonOnError] >>])
  IN [src |-> src, shouldBlock |-> shouldBlock, scope |-> config.scope,
      reason |-> currentReason, priority |-> priority, timeout |-> config.timeout,
      config |-> config, result |-> results]

(* blockingConfigs of a batch adapter: each toggle at its default or        *)
(* switched, the reasons given or not                                       *)
QueriesConfigs ==
  { QueryConfig(l, f, e, r, rl, Undefined, Undefined, NotGiven) :
      l \in Toggles, f \in {NotGiven, Given(TRUE)}, e \in {NotGiven, Given(TRUE)},
      r \in {Undefined, "A"}, rl \in {Undefined, "B"} }

(* ------------------------------------------------------------------------ *)
(* useBlockingInfiniteQuery: a paginated read                                 *)
(* ------------------------------------------------------------------------ *)
(* the flags of an infinite query result the adapter reads *)
InfiniteResult(isLoading, isFetching, isFetchingNextPage, isFetchingPreviousPage, isError) ==
  [isLoading |-> isLoading, isFetching |-> isFetching,
   isFetchingNextPage |-> isFetchingNextPage,
   isFetchingPreviousPage |-> isFetchingPreviousPage, isError |-> isError]

(* every combination of the five flags *)
InfiniteFlagCombinations ==
  { InfiniteResult(l, f, n, p, e) :
      l \in BOOLEAN, f \in BOOLEAN, n \in BOOLEAN, p \in BOOLEAN, e \in BOOLEAN }

isFetchingButNotLoading(query) ==
  (query.isFetching \/ query.isFetchingNextPage \/ query.isFetchingPreviousPage)
    /\ ~query.isLoading

(* faulty variant: fetching blocks unless switched off *)
InfiniteDefaultsFetchingOn ==
  [reason |-> "Loading more data...", priority |-> 10,
   onLoading |-> TRUE, onFetching |-> TRUE, onError |-> FALSE]

(* the defaults of the destructured blockingConfig of useBlockingInfiniteQuery *)
InfiniteDefaults ==
  [reason |-> "Loading more data...", priority |-> 10,
   onLoading |-> TRUE, onFetching |-> FALSE, onError |-> FALSE]

(* the options useBlockingInfiniteQuery hands to useBlockingManager *)
useBlockingInfiniteQuery(src, config, query) ==
  LET reason == IF config.reason = Undefined THEN InfiniteDefaults.reason
                ELSE config.reason
      priority == DefaultTo(config.priority, InfiniteDefaults.priority)
      onLoading == DefaultTo(config.onLoading, InfiniteDefaults.onLoading)
      onFetching == DefaultTo(config.onFetching, InfiniteDefaults.onFetching)
      onError == DefaultTo(config.onError, InfiniteDefaults.onError)
      shouldBlock ==
        \/ onLoading /\ query.isLoading
        \/ onFetching /\ isFetchingButNotLoading(query)
        \/ onError /\ query.isError
      currentReason ==
        resolveBlockingReason(
          [defaultReason |-> reason,
           stateReasons |->
             << [condition |-> query.isLoading, reason |-> config.reasonOnLoading],
                [condition |-> isFetchingButNotLoading(query),
                 reason |-> config.reasonOnFetching],
                [condition |-> query.isError, reason |-> config.reasonOnError] >>])
  IN [src |-> src, shouldBlock |-> shouldBlock, scope |-> config.scope,
      reason |-> currentReason, priority |-> priority, timeout |-> config.timeout,
      config |-> config, result |-> query]

(* ------------------------------------------------------------------------ *)
(* The four adapters side by side                                             *)
(* ------------------------------------------------------------------------ *)
(* the options the adapter of variant src.variant hands to the manager *)
Adapter(src, config, result) ==
  IF src.variant = "query" THEN useBlockingQuery(src, config, result)
  ELSE IF src.variant = "infinite-query" THEN useBlockingInfiniteQuery(src, config, result)
  ELSE IF src.variant = "queries" THEN useBlockingQueries(src, config, result)
  ELSE useBlockingMutation(src, config, result)

(* blockingConfigs of the read adapters with every toggle given and each    *)
(* state-specific reason given or not                                       *)
ReasonConfigsOfReads ==
  { QueryConfig(Given(l), Given(f), Given(e), Undefined, rl, rf, re, NotGiven) :
      l \in BOOLEAN, f \in BOOLEAN, e \in BOOLEAN,
      rl \in {Undefined, "B"}, rf \in {Undefined, "C"}, re \in {Undefined, "D"} }

(* the states of the members of a batch: one query at most does one thing, *)
(* and a batch fails and refetches at once with two members                *)
BatchMemberStates == {Loading, Success, Refetching, Failed}

(* the adapters with the configurations and the results each can be given *)
AdapterInputs ==
  [src : {QueryTest}, config : ReasonConfigsOfReads, result : QueryStates]
  \cup [src : {InfiniteTest}, config : ReasonConfigsOfReads,
        result : InfiniteFlagCombinations]
  \cup [src : {Queries}, config : ReasonConfigsOfReads,
        result : UNION {BatchResults(n, BatchMemberStates) : n \in 1..BatchSize}]
  \cup [src : {MutationSaveUser}, config : MutationConfigs,
        result : {MutationResult(st) : st \in {"idle", "pending", "success", "error"}}]

(* config with its toggles replaced; a write adapter has the one toggle     *)
(* onError, replaced only in a config without reasonOnError, which its type *)
(* allows with either value of the toggle                                   *)
WithToggles(src, config, l, f, e) ==
  IF src.variant = "mutation"
  THEN IF config.reasonOnError = Undefined
       THEN [config EXCEPT !.onError = Given(e)] ELSE config
  ELSE [config EXCEPT !.onLoading = Given(l), !.onFetching = Given(f),
                      !.onError = Given(e)]

(* the results the operation of an adapter can show in place of result *)
ResultsAfter(src, result) ==
  IF src.variant = "query" THEN QueryStates
  ELSE IF src.variant = "infinite-query" THEN InfiniteFlagCombinations
  ELSE IF src.variant = "queries"
  THEN { [result EXCEPT ![k] = q] : k \in DOMAIN result, q \in BatchMemberStates }
  ELSE {MutationResult(st) : st \in {"idle", "pending", "success", "error"}}

(* ------------------------------------------------------------------------ *)
(* The inline reason selection of the earlier revisions of the adapters       *)
(* ------------------------------------------------------------------------ *)
(* currentReason of the earlier useBlockingQuery: if / else-if over the    *)
(* flags and the reasons that are not undefined                            *)
currentReasonInlineQuery(config, query) ==
  LET reason == IF config.reason = Undefined THEN "Loading data..." ELSE config.reason
  IN IF query.isLoading /\ config.reasonOnLoading # Undefined
     THEN config.reasonOnLoading
     ELSE IF query.isFetching /\ ~query.isLoading /\ config.reasonOnFetching # Undefined
     THEN config.reasonOnFetching
     ELSE IF query.isError /\ config.reasonOnError # Undefined
     THEN config.reasonOnError
     ELSE reason

(* currentReason of the earlier useBlockingMutation *)
currentReasonInlineMutation(config, mutation) ==
  LET reason == IF config.reason = Undefined THEN "Saving changes..." ELSE config.reason
  IN IF mutation.isPending /\ config.reasonOnPending # Undefined
     THEN config.reasonOnPending
     ELSE IF mutation.isError /\ config.reasonOnError # Undefined
     THEN config.reasonOnError
     ELSE reason

(* every combination of the two flags of a mutation result *)
MutationFlagCombinations ==
  [status : {"any"}, isPending : BOOLEAN, isError : BOOLEAN]

(* a single-read and a write adapter that block on every state they can,   *)
(* with every flag combination and each reason missing, given or, for the   *)
(* first state-specific one, empty                                          *)
ReasonCaseInputs ==
  [src : {QueryTest},
   config : { QueryConfig(NotGiven, Given(TRUE), Given(TRUE), r, rl, rf, re, NotGiven) :
                r \in {Undefined, "A"}, rl \in {Undefined, "", "B"},
                rf \in {Undefined, "C"}, re \in {Undefined, "D"} },
   result : FlagCombinations]
  \cup
  [src : {MutationSaveUser},
   config : { MutationConfig(Given(TRUE), r, rp, re, NotGiven) :
                r \in {Undefined, "A"}, rp \in {Undefined, "", "B"},
                re \in {Undefined, "C"} },
   result : MutationFlagCombinations]

(* an adapter that blocks with the reason resolved from config *)
ReasonOptions ==
  { [src |-> QueryTest, shouldBlock |-> TRUE, scope |-> "test",
     reason |-> resolveBlockingReason(c), priority |-> 10, timeout |-> 0,
     reasonConfig |-> c] : c \in ReasonConfigs }

(* ------------------------------------------------------------------------ *)
(* The blocking store (addBlocker / updateBlocker / removeBlocker, timeout)   *)
(* A store state is [blockers, timers, ops]; ops logs the calls of one step.  *)
(* ------------------------------------------------------------------------ *)
Without(f, id) == [x \in DOMAIN f \ {id} |-> f[x]]

(* a logged call: timed says whether an addBlocker carried a timeout, a      *)
(* removeBlocker cancelled a pending timer                                  *)
Call(op, id, by, timed) == [op |-> op, id |-> id, by |-> by, timed |-> timed]

addBlocker(s, id, meta, timeout, by) ==
  [s EXCEPT !.blockers = (id :> meta) @@ s.blockers,
            !.timers = IF timeout > 0 THEN (id :> by) @@ s.timers
                       ELSE Without(s.timers, id),
            !.ops = Append(s.ops, Call("addBlocker", id, by, timeout > 0))]

updateBlocker(s, id, meta, by) ==
  [s EXCEPT !.blockers = IF id \in DOMAIN s.blockers
                         THEN (id :> meta) @@ s.blockers ELSE s.blockers,
            !.ops = Append(s.ops, Call("updateBlocker", id, by, FALSE))]

removeBlocker(s, id, by) ==
  [s EXCEPT !.blockers = Without(s.blockers, id),
            !.timers = Without(s.timers, id),
            !.ops = Append(s.ops, Call("removeBlocker", id, by, id \in DOMAIN s.timers))]

(* the store's timer for id elapses: entry removed, onTimeout(id) invoked *)
timeoutElapsed(s, id) ==
  [s EXCEPT !.blockers = Without(s.blockers, id),
            !.timers = Without(s.timers, id),
            !.ops = IF id \in DOMAIN s.blockers
                    THEN Append(s.ops, Call("onTimeout", id, s.timers[id], TRUE))
                    ELSE s.ops]

(* ------------------------------------------------------------------------ *)
(* useBlockingManager: effect body and effect cleanup of one instance.        *)
(* A manager state m is a store state plus ref, the value of wasBlockedRef.   *)
(* ------------------------------------------------------------------------ *)
(* faulty variant: addBlocker is called without timeout and onTimeout *)
EffectBodyDropsTimeout(m, i, p, blockerId) ==
  IF p.shouldBlock
  THEN IF m.ref
       THEN updateBlocker(m, blockerId, MetaOf(p), i)
       ELSE [addBlocker(m, blockerId, MetaOf(p), 0, i) EXCEPT !.ref = TRUE]
  ELSE IF m.ref
       THEN [removeBlocker(m, blockerId, i) EXCEPT !.ref = FALSE]
       ELSE m

(* faulty variant: an entry that already exists under the identity is kept as it is *)
EffectBodyKeepsExisting(m, i, p, blockerId) ==
  IF p.shouldBlock
  THEN IF m.ref
       THEN updateBlocker(m, blockerId, MetaOf(p), i)
       ELSE IF blockerId \in DOMAIN m.blockers
            THEN [m EXCEPT !.ref = TRUE]
            ELSE [addBlocker(m, blockerId, MetaOf(p), p.timeout, i) EXCEPT !.ref = TRUE]
  ELSE IF m.ref
       THEN [removeBlocker(m, blockerId, i) EXCEPT !.ref = FALSE]
       ELSE m

EffectBody(m, i, p, blockerId) ==
  IF p.shouldBlock
  THEN IF m.ref
       THEN updateBlocker(m, blockerId, MetaOf(p), i)
       ELSE [addBlocker(m, blockerId, MetaOf(p), p.timeout, i) EXCEPT !.ref = TRUE]
  ELSE IF m.ref
       THEN [removeBlocker(m, blockerId, i) EXCEPT !.ref = FALSE]
       ELSE m

(* faulty variant: the cleanup removes the entry whether or not this         *)
(* instance created it (the earlier revision of the manager)                *)
EffectCleanupUnconditional(m, i, blockerId) ==
  [removeBlocker(m, blockerId, i) EXCEPT !.ref = FALSE]

(* faulty variant: the cleanup empties the registry instead of removing its *)
(* own entry                                                                *)
EffectCleanupClearsAll(m, i, blockerId) ==
  IF m.ref
  THEN [m EXCEPT !.blockers = <<>>, !.timers = <<>>, !.ref = FALSE,
                 !.ops = Append(m.ops, Call("removeBlocker", blockerId, i,
                                            blockerId \in DOMAIN m.timers))]
  ELSE m

(* faulty variant: the cleanup removes the entry but leaves wasBlockedRef set *)
EffectCleanupKeepsFlag(m, i, blockerId) ==
  IF m.ref THEN removeBlocker(m, blockerId, i) ELSE m

(* faulty variant: the cleanup clears wasBlockedRef without removing the entry *)
EffectCleanupSkipsRemove(m, i, blockerId) ==
  IF m.ref THEN [m EXCEPT !.ref = FALSE] ELSE m

EffectCleanup(m, i, blockerId) ==
  IF m.ref
  THEN [removeBlocker(m, blockerId, i) EXCEPT !.ref = FALSE]
  ELSE m

(* the earlier revision of useBlockingManager, which keeps no flag: its     *)
(* effect body adds or removes, its cleanup always removes. It works on a   *)
(* store state and takes no timeout.                                        *)
EarlierEffectBody(s, i, p, blockerId) ==
  IF p.shouldBlock
  THEN addBlocker(s, blockerId, MetaOf(p), 0, i)
  ELSE removeBlocker(s, blockerId, i)

EarlierEffectCleanup(s, i, blockerId) == removeBlocker(s, blockerId, i)

Manager(i) ==
  [blockers |-> activeBlockers, timers |-> timers, ops |-> <<>>,
   ref |-> wasBlockedRef[i]]

(* the last step taken: its kind, the instance and identity it concerns and *)
(* the store calls it made                                                 *)
Step(kind, i, id, ops) == [kind |-> kind, inst |-> i, id |-> id, ops |-> ops]

(* ------------------------------------------------------------------------ *)
(* Initial state and actions                                                  *)
(* ------------------------------------------------------------------------ *)
Init ==
  /\ status = [i \in Inst |-> "new"]
  /\ props = [i \in Inst |-> NoOptions]
  /\ effectId = [i \in Inst |-> NoId]
  /\ wasBlockedRef = [i \in Inst |-> FALSE]
  /\ isMountedRef = [i \in Inst |-> TRUE]
  /\ activeBlockers = <<>>
  /\ timers = <<>>
  /\ last = Step("init", 0, NoId, <<>>)
  /\ hist = [removed |-> [i \in Inst |-> FALSE], writer |-> <<>>,
             earlier |-> [blockers |-> <<>>, ops |-> <<>>],
             balance |-> [i \in Inst |-> 0]]

(* history of a behaviour: removed[i], instance i has had its entry removed *)
(* by an effect run with shouldBlock false; writer[id], the instance whose   *)
(* effect most recently ran with shouldBlock true under identity id;         *)
(* earlier, the registry the earlier revision of the manager would hold     *)
(* after the same renders and the store calls it would make in this step.   *)
(* balance[i], the addBlocker calls instance i has issued less its           *)
(* removeBlocker calls. A specification tracks one of them ("removed",       *)
(* "writer", "earlier", "balance") or none.                                  *)
History(track) ==
  LET i == last'.inst
      ran == last'.kind \in {"mount", "effect"}
      s0 == [blockers |-> hist.earlier.blockers, timers |-> <<>>, ops |-> <<>>]
      s1 == IF last'.kind \in {"effect", "unmount"}
            THEN EarlierEffectCleanup(s0, i, effectId[i]) ELSE s0
      s2 == IF ran THEN EarlierEffectBody(s1, i, props'[i], effectId'[i]) ELSE s1
      calls(op) == {k \in DOMAIN last'.ops : last'.ops[k].op = op /\ last'.ops[k].by = i}
  IN hist' =
       [removed |->
          IF track = "removed" /\ ran /\ ~props'[i].shouldBlock /\ last'.ops # <<>>
          THEN [hist.removed EXCEPT ![i] = TRUE] ELSE hist.removed,
        writer |->
          IF track = "writer" /\ ran /\ props'[i].shouldBlock
          THEN (last'.id :> i) @@ hist.writer ELSE hist.writer,
        earlier |->
          IF track = "earlier"
          THEN [blockers |-> s2.blockers, ops |-> s2.ops] ELSE hist.earlier,
        balance |->
          IF track = "balance" /\ last'.kind \in {"mount", "effect", "unmount"}
          THEN [hist.balance EXCEPT ![i] = @ + Cardinality(calls("addBlocker"))
                                             - Cardinality(calls("removeBlocker"))]
          ELSE hist.balance]

(* first render of instance i with options p, and its first effect run *)
Mount(i, p, track) ==
  /\ status[i] = "new"
  /\ LET id == BlockerId(p.src, i)
         m == EffectBody(Manager(i), i, p, id)
     IN /\ status' = [status EXCEPT ![i] = "mounted"]
        /\ props' = [props EXCEPT ![i] = p]
        /\ effectId' = [effectId EXCEPT ![i] = id]
        /\ wasBlockedRef' = [wasBlockedRef EXCEPT ![i] = m.ref]
        /\ isMountedRef' = [isMountedRef EXCEPT ![i] = TRUE]
        /\ activeBlockers' = m.blockers
        /\ timers' = m.timers
        /\ last' = Step("mount", i, id, m.ops)
        /\ History(track)

(* a later render of instance i with options p; depsChanged says whether a   *)
(* dependency outside the manager's options (blockingConfig, the operation's *)
(* state) changed identity. With no dependency changed no effect runs;       *)
(* otherwise the previous run's cleanup runs, then the effect body.          *)
Render(i, p, depsChanged, track) ==
  /\ status[i] = "mounted"
  /\ p.src.variant = props[i].src.variant
  /\ IF p = props[i] /\ ~depsChanged
     THEN /\ last' = Step("render", i, effectId[i], <<>>)
          /\ UNCHANGED <<status, props, effectId, wasBlockedRef, isMountedRef,
                         activeBlockers, timers, hist>>
     ELSE LET id == BlockerId(p.src, i)
              c == EffectCleanup(Manager(i), i, effectId[i])
              m == EffectBody(c, i, p, id)
          IN /\ props' = [props EXCEPT ![i] = p]
             /\ effectId' = [effectId EXCEPT ![i] = id]
             /\ wasBlockedRef' = [wasBlockedRef EXCEPT ![i] = m.ref]
             /\ isMountedRef' = [isMountedRef EXCEPT ![i] = TRUE]
             /\ activeBlockers' = m.blockers
             /\ timers' = m.timers
             /\ last' = Step("effect", i, id, m.ops)
             /\ UNCHANGED status
             /\ History(track)

(* instance i unmounts: the cleanup of its last effect run executes *)
Unmount(i, track) ==
  /\ status[i] = "mounted"
  /\ LET c == EffectCleanup(Manager(i), i, effectId[i])
     IN /\ status' = [status EXCEPT ![i] = "unmounted"]
        /\ props' = [props EXCEPT ![i] = NoOptions]
        /\ effectId' = [effectId EXCEPT ![i] = NoId]
        /\ wasBlockedRef' = [wasBlockedRef EXCEPT ![i] = c.ref]
        /\ isMountedRef' = [isMountedRef EXCEPT ![i] = FALSE]
        /\ activeBlockers' = c.blockers
        /\ timers' = c.timers
        /\ last' = Step("unmount", i, effectId[i], c.ops)
        /\ History(track)

(* the store's timeout for id elapses *)
TimeoutFire(id, track) ==
  /\ id \in DOMAIN timers
  /\ LET s == timeoutElapsed([blockers |-> activeBlockers, timers |-> timers,
                              ops |-> <<>>], id)
     IN /\ activeBlockers' = s.blockers
        /\ timers' = s.timers
        /\ last' = Step("timeout", timers[id], id, s.ops)
        /\ UNCHANGED <<status, props, effectId, wasBlockedRef, isMountedRef>>
        /\ History(track)

(* a read adapter mounts with blockingConfig c, its query in a first load   *)
(* or served from the cache                                                 *)
QueryMount(i, c, q) ==
  /\ q \in {Loading, Success}
  /\ Mount(i, useBlockingQuery(QueryTest, c, q), "none")

(* the query of a read adapter changes state and the adapter re-renders *)
QueryChange(i) ==
  /\ status[i] = "mounted"
  /\ \E q \in QueryNext(props[i].result) :
       Render(i, useBlockingQuery(props[i].src, props[i].config, q), TRUE, "none")

(* a read adapter re-renders with blockingConfig c *)
QueryConfigChange(i, c) ==
  /\ status[i] = "mounted"
  /\ Render(i, useBlockingQuery(props[i].src, c, props[i].result), TRUE, "none")

(* a write adapter mounts with blockingConfig c; nothing has been sent yet *)
MutationMount(i, src, c) ==
  Mount(i, useBlockingMutation(src, c, MutationResult("idle")), "none")

(* the mutation of a write adapter changes state and the adapter re-renders *)
MutationChange(i) ==
  /\ status[i] = "mounted"
  /\ \E m \in MutationNext(props[i].result) :
       Render(i, useBlockingMutation(props[i].src, props[i].config, m), TRUE, "none")

(* a write adapter re-renders with blockingConfig c *)
MutationConfigChange(i, c) ==
  /\ status[i] = "mounted"
  /\ Render(i, useBlockingMutation(props[i].src, c, props[i].result), TRUE, "none")

(* a batch adapter mounts with blockingConfig c, each member in a first     *)
(* load or served from the cache                                            *)
QueriesMount(i, c, results) ==
  Mount(i, useBlockingQueries(Queries, c, results), "none")

(* a member of the batch changes state and the adapter re-renders *)
QueriesChange(i) ==
  /\ status[i] = "mounted"
  /\ \E r \in BatchNext(props[i].result) :
       Render(i, useBlockingQueries(props[i].src, props[i].config, r), TRUE, "none")

(* a batch adapter re-renders with blockingConfig c *)
QueriesConfigChange(i, c) ==
  /\ status[i] = "mounted"
  /\ Render(i, useBlockingQueries(props[i].src, c, props[i].result), TRUE, "none")

(* a member of the batch shows flags from S and the adapter re-renders *)
QueriesMemberChange(i, S) ==
  /\ status[i] = "mounted"
  /\ \E k \in DOMAIN props[i].result, q \in S :
       Render(i, useBlockingQueries(props[i].src, props[i].config,
                                    [props[i].result EXCEPT ![k] = q]), TRUE, "none")

(* a paginated read adapter mounts with blockingConfig c, observing q *)
InfiniteMount(i, c, q) ==
  Mount(i, useBlockingInfiniteQuery(InfiniteTest, c, q), "none")

(* a paginated read adapter re-renders, observing q *)
InfiniteChange(i, q) ==
  /\ status[i] = "mounted"
  /\ Render(i, useBlockingInfiniteQuery(props[i].src, props[i].config, q), TRUE, "none")

(* a paginated read adapter re-renders with blockingConfig c *)
InfiniteConfigChange(i, c) ==
  /\ status[i] = "mounted"
  /\ Render(i, useBlockingInfiniteQuery(props[i].src, c, props[i].result), TRUE, "none")

(* an adapter of any variant mounts *)
AdapterMount(i, in) ==
  Mount(i, Adapter(in.src, in.config, in.result), "none")

(* an adapter re-renders with other toggles in its blockingConfig *)
AdapterToggleChange(i, l, f, e) ==
  /\ status[i] = "mounted"
  /\ Render(i, Adapter(props[i].src,
                       WithToggles(props[i].src, props[i].config, l, f, e),
                       props[i].result), TRUE, "none")

(* the operation of an adapter changes state and the adapter re-renders *)
AdapterResultChange(i) ==
  /\ status[i] = "mounted"
  /\ \E r \in ResultsAfter(props[i].src, props[i].result) :
       Render(i, Adapter(props[i].src, props[i].config, r), TRUE, "none")

(* an adapter re-renders with another blockingConfig and operation state *)
AdapterRerender(i, in) ==
  /\ status[i] = "mounted"
  /\ in.src = props[i].src
  /\ Render(i, Adapter(in.src, in.config, in.result), TRUE, "none")

Next ==
  \/ \E i \in Inst, p \in Options : Mount(i, p, "none")
  \/ \E i \in Inst, p \in Options : Render(i, p, TRUE, "none")
  \/ \E i \in Inst : Render(i, props[i], FALSE, "none")
  \/ \E i \in Inst : Unmount(i, "none")
  \/ \E id \in DOMAIN timers : TimeoutFire(id, "none")

Spec == Init /\ [][Next]_vars

(* instances sharing one identity; the last writer is recorded *)
NextShared ==
  \/ \E i \in Inst, p \in SharedOptions : Mount(i, p, "writer")
  \/ \E i \in Inst, p \in SharedOptions : Render(i, p, TRUE, "writer")
  \/ \E i \in Inst : Render(i, props[i], FALSE, "writer")
  \/ \E i \in Inst : Unmount(i, "writer")

SpecShared == Init /\ [][NextShared]_vars

(* instances with a timeout; normal removals are recorded *)
NextRecreate ==
  \/ \E i \in Inst, p \in RecreateOptions : Mount(i, p, "removed")
  \/ \E i \in Inst, p \in RecreateOptions : Render(i, p, TRUE, "removed")
  \/ \E i \in Inst : Render(i, props[i], FALSE, "removed")
  \/ \E i \in Inst : Unmount(i, "removed")
  \/ \E id \in DOMAIN timers : TimeoutFire(id, "removed")

SpecRecreate == Init /\ [][NextRecreate]_vars

(* adapters whose identities come from their mutationKey or from useId *)
NextIdentity ==
  \/ \E i \in Inst, p \in IdentityOptions : Mount(i, p, "none")
  \/ \E i \in Inst, p \in IdentityOptions : Render(i, p, TRUE, "none")
  \/ \E i \in Inst : Render(i, props[i], FALSE, "none")
  \/ \E i \in Inst : Unmount(i, "none")

SpecIdentity == Init /\ [][NextIdentity]_vars

(* adapters of both kinds with several keys *)
NextKeys ==
  \/ \E i \in Inst, p \in KeysOptions : Mount(i, p, "none")
  \/ \E i \in Inst, p \in KeysOptions : Render(i, p, TRUE, "none")
  \/ \E i \in Inst : Render(i, props[i], FALSE, "none")
  \/ \E i \in Inst : Unmount(i, "none")

SpecKeys == Init /\ [][NextKeys]_vars

(* one adapter whose reason is resolved from every configuration *)
NextReason ==
  \/ \E p \in ReasonOptions : Mount(1, p, "none")
  \/ Render(1, props[1], TRUE, "none")
  \/ Render(1, props[1], FALSE, "none")
  \/ Unmount(1, "none")

SpecReason == Init /\ [][NextReason]_vars

(* one read adapter under every combination of toggles and flags *)
NextToggles ==
  \/ \E p \in ToggleOptions : Mount(1, p, "none")
  \/ \E p \in ToggleOptions : Render(1, p, TRUE, "none")
  \/ Render(1, props[1], FALSE, "none")
  \/ Unmount(1, "none")

SpecToggles == Init /\ [][NextToggles]_vars

(* one read adapter following its query *)
NextQuery ==
  \/ \E c \in QueryConfigs, q \in {Loading, Success} : QueryMount(1, c, q)
  \/ QueryChange(1)
  \/ \E c \in QueryConfigs : QueryConfigChange(1, c)
  \/ Render(1, props[1], FALSE, "none")
  \/ Unmount(1, "none")

SpecQuery == Init /\ [][NextQuery]_vars

(* one write adapter, with or without a mutationKey, following its mutation *)
NextMutation ==
  \/ \E s \in {MutationSaveUser, MutationNoKey}, c \in MutationConfigs :
       MutationMount(1, s, c)
  \/ MutationChange(1)
  \/ \E c \in MutationConfigs : MutationConfigChange(1, c)
  \/ Render(1, props[1], FALSE, "none")
  \/ Unmount(1, "none")

SpecMutation == Init /\ [][NextMutation]_vars

(* one batch adapter following the queries of its batch *)
NextQueries ==
  \/ \E c \in QueriesConfigs, n \in 1..BatchSize :
       \E r \in BatchResults(n, {Loading, Success}) : QueriesMount(1, c, r)
  \/ QueriesChange(1)
  \/ \E c \in QueriesConfigs : QueriesConfigChange(1, c)
  \/ Render(1, props[1], FALSE, "none")
  \/ Unmount(1, "none")

SpecQueries == Init /\ [][NextQueries]_vars

(* one batch adapter under every combination of toggles and every batch of *)
(* up to BatchSize members, the empty batch included                       *)
NextBatchToggles ==
  \/ \E c \in ToggleConfigs, n \in 0..BatchSize :
       \E r \in BatchResults(n, QueryStates) : QueriesMount(1, c, r)
  \/ QueriesMemberChange(1, QueryStates)
  \/ \E c \in ToggleConfigs : QueriesConfigChange(1, c)
  \/ Render(1, props[1], FALSE, "none")
  \/ Unmount(1, "none")

SpecBatchToggles == Init /\ [][NextBatchToggles]_vars

(* one paginated read adapter under every combination of toggles and flags *)
NextInfinite ==
  \/ \E c \in ToggleConfigs, q \in InfiniteFlagCombinations : InfiniteMount(1, c, q)
  \/ \E q \in InfiniteFlagCombinations : InfiniteChange(1, q)
  \/ \E c \in ToggleConfigs : InfiniteConfigChange(1, c)
  \/ Render(1, props[1], FALSE, "none")
  \/ Unmount(1, "none")

SpecInfinite == Init /\ [][NextInfinite]_vars

(* instances whose entry can only disappear by a removal or by its timeout *)
NextExpiry ==
  \/ \E i \in Inst, p \in ExpiryOptions : Mount(i, p, "none")
  \/ \E i \in Inst, p \in ExpiryOptions : Render(i, p, TRUE, "none")
  \/ \E i \in Inst : Render(i, props[i], FALSE, "none")
  \/ \E i \in Inst : Unmount(i, "none")
  \/ \E id \in DOMAIN timers : TimeoutFire(id, "none")

SpecExpiry == Init /\ [][NextExpiry]_vars

(* one adapter of any of the four variants, its toggles and its operation  *)
(* changing                                                                *)
NextAdapters ==
  \/ \E in \in AdapterInputs : AdapterMount(1, in)
  \/ \E l \in BOOLEAN, f \in BOOLEAN, e \in BOOLEAN : AdapterToggleChange(1, l, f, e)
  \/ AdapterResultChange(1)
  \/ Render(1, props[1], FALSE, "none")
  \/ Unmount(1, "none")

SpecAdapters == Init /\ [][NextAdapters]_vars

(* one instance without timeout; the registry of the earlier revision of  *)
(* the manager is kept beside the registry                                 *)
NextEarlier ==
  \/ \E p \in EarlierOptions : Mount(1, p, "earlier")
  \/ \E p \in EarlierOptions : Render(1, p, TRUE, "earlier")
  \/ Render(1, props[1], FALSE, "earlier")
  \/ Unmount(1, "earlier")

SpecEarlier == Init /\ [][NextEarlier]_vars

(* a single-read or a write adapter over every flag and reason combination *)
NextReasonCases ==
  \/ \E in \in ReasonCaseInputs : AdapterMount(1, in)
  \/ \E in \in ReasonCaseInputs : AdapterRerender(1, in)
  \/ Render(1, props[1], FALSE, "none")
  \/ Unmount(1, "none")

SpecReasonCases == Init /\ [][NextReasonCases]_vars

(* adapters of different variants given the same key *)
NextVariants ==
  \/ \E i \in Inst, p \in VariantsOptions : Mount(i, p, "none")
  \/ \E i \in Inst, p \in VariantsOptions : Render(i, p, TRUE, "none")
  \/ \E i \in Inst : Render(i, props[i], FALSE, "none")
  \/ \E i \in Inst : Unmount(i, "none")

SpecVariants == Init /\ [][NextVariants]_vars

(* every instance with every option and the timeouts; the calls of each    *)
(* instance are counted                                                    *)
NextBalance ==
  \/ \E i \in Inst, p \in Options : Mount(i, p, "balance")
  \/ \E i \in Inst, p \in Options : Render(i, p, TRUE, "balance")
  \/ \E i \in Inst : Render(i, props[i], FALSE, "balance")
  \/ \E i \in Inst : Unmount(i, "balance")
  \/ \E id \in DOMAIN timers : TimeoutFire(id, "balance")

SpecBalance == Init /\ [][NextBalance]_vars

(* ------------------------------------------------------------------------ *)
(* Vocabulary of the properties                                               *)
(* ------------------------------------------------------------------------ *)
Mounted(i) == status[i] = "mounted"

IdOf(i) == BlockerId(props[i].src, i)

(* no other live instance uses the identity id *)
SoleHolderOf(i, id) == \A j \in Inst \ {i} : Mounted(j) => IdOf(j) # id

(* the last step was an effect run (first or later) of instance i *)
EffectRan(i) == last.inst = i /\ last.kind \in {"mount", "effect"}

Issued(ops, op) == {k \in 1..Len(ops) : ops[k].op = op}

(* ------------------------------------------------------------------------ *)
(* C1: for an instance that is the only user of its identity and has no       *)
(* timeout, after each of its effect runs the registry holds an entry under   *)
(* its identity iff the latest rendered shouldBlock is true, and the entry's  *)
(* scope, reason and priority are those of the latest render.                 *)
(* ------------------------------------------------------------------------ *)
C1_RegistryFollowsRender ==
  \A i \in Inst :
    (EffectRan(i) /\ SoleHolderOf(i, IdOf(i)) /\ props[i].timeout = 0) =>
      /\ (IdOf(i) \in DOMAIN activeBlockers) <=> props[i].shouldBlock
      /\ props[i].shouldBlock => activeBlockers[IdOf(i)] = MetaOf(props[i])

(* a re-run that replaced the metadata of a blocking instance *)
C1_Witness ==
  \E i \in Inst :
    /\ last.kind = "effect" /\ last.inst = i /\ Len(last.ops) = 2
    /\ SoleHolderOf(i, IdOf(i)) /\ props[i].timeout = 0 /\ props[i].shouldBlock
    /\ activeBlockers[IdOf(i)] = MetaOf(props[i])

(* ------------------------------------------------------------------------ *)
(* C2: right after an instance that is the only user of its identity has     *)
(* unmounted, the registry has no entry under that identity, whatever        *)
(* shouldBlock was; and an unmounted instance issues no store call.          *)
(* ------------------------------------------------------------------------ *)
C2_UnmountLeavesNoEntry ==
  /\ [](\A i \in Inst :
         (last.kind = "unmount" /\ last.inst = i /\ SoleHolderOf(i, last.id)) =>
           last.id \notin DOMAIN activeBlockers)
  /\ [][\A i \in Inst :
          status[i] = "unmounted" =>
            \A k \in 1..Len(last'.ops) :
              last'.ops[k].by = i => last'.ops[k].op = "onTimeout"]_vars

(* an instance that was blocking at its last render has unmounted *)
C2_Witness ==
  /\ last.kind = "unmount" /\ SoleHolderOf(last.inst, last.id)
  /\ Issued(last.ops, "removeBlocker") # {}
  /\ last.id \notin DOMAIN activeBlockers

(* ------------------------------------------------------------------------ *)
(* C3: an effect re-run with shouldBlock true, after a run with shouldBlock  *)
(* true and with changed scope, reason or priority, issues exactly one       *)
(* updateBlocker(identity, {scope, reason, priority}) and neither            *)
(* removeBlocker nor addBlocker.                                             *)
(* ------------------------------------------------------------------------ *)
C3_MetadataUpdatedInPlace ==
  [][\A i \in Inst :
       ( /\ Mounted(i) /\ props[i].shouldBlock
         /\ last'.kind = "effect" /\ last'.inst = i
         /\ props'[i].shouldBlock
         /\ props'[i].src = props[i].src
         /\ MetaOf(props'[i]) # MetaOf(props[i]) ) =>
       last'.ops = <<Call("updateBlocker", last'.id, i, FALSE)>>]_vars

(* ------------------------------------------------------------------------ *)
(* C4: during one continuous blocking period of an instance addBlocker       *)
(* carrying timeout/onTimeout is issued once: an effect re-run of an         *)
(* instance that is already blocking and stays blocking under the same       *)
(* identity issues no addBlocker, so the countdown is not restarted.         *)
(* ------------------------------------------------------------------------ *)
C4_TimerStartedOnce ==
  [][\A i \in Inst :
       ( /\ Mounted(i) /\ props[i].shouldBlock /\ wasBlockedRef[i]
         /\ props[i].timeout > 0 /\ props'[i].timeout = props[i].timeout
         /\ last'.kind = "effect" /\ last'.inst = i
         /\ props'[i].shouldBlock
         /\ props'[i].src = props[i].src ) =>
       Issued(last'.ops, "addBlocker") = {}]_vars

(* ------------------------------------------------------------------------ *)
(* C5: while at least one live instance of a shared identity has shouldBlock *)
(* true (and none of them has a timeout), the entry is present.              *)
(* ------------------------------------------------------------------------ *)
C5_EntryWhileAnyBlocks ==
  \A i \in Inst :
    ( /\ Mounted(i) /\ props[i].shouldBlock
      /\ \E j \in Inst \ {i} : Mounted(j) /\ IdOf(j) = IdOf(i)
      /\ \A j \in Inst : (Mounted(j) /\ IdOf(j) = IdOf(i)) => props[j].timeout = 0 ) =>
    IdOf(i) \in DOMAIN activeBlockers

(* C5 as amended: the entry of a shared identity is removed as soon as ANY   *)
(* instance whose private flag is set unmounts or renders not-blocking, also *)
(* while other live instances still block; and an entry is present only      *)
(* while some live instance of that identity has shouldBlock true.           *)
C5_AnyHolderRemoves ==
  /\ [](\A id \in DOMAIN activeBlockers :
         \E i \in Inst :
           Mounted(i) /\ IdOf(i) = id /\ props[i].shouldBlock /\ wasBlockedRef[i])
  /\ [][\A i \in Inst :
          ( /\ Mounted(i) /\ wasBlockedRef[i] /\ last'.inst = i
            /\ \/ last'.kind = "unmount"
               \/ last'.kind = "effect" /\ ~props'[i].shouldBlock ) =>
          effectId[i] \notin DOMAIN activeBlockers']_vars

(* an instance unmounted and took the entry with it while another blocks *)
C5_Witness ==
  /\ last.kind = "unmount" /\ Issued(last.ops, "removeBlocker") # {}
  /\ \E j \in Inst : Mounted(j) /\ IdOf(j) = last.id /\ props[j].shouldBlock
  /\ last.id \notin DOMAIN activeBlockers

(* ------------------------------------------------------------------------ *)
(* C6: an entry created with a timeout by an instance that keeps blocking    *)
(* has its timer armed with that instance's onTimeout; when the timer        *)
(* elapses the entry is removed and onTimeout is invoked exactly once, with  *)
(* the blocker's identity (for the query key ["test"]: query-["test"]).      *)
(* ------------------------------------------------------------------------ *)
C6_TimeoutExpiry ==
  /\ \A i \in Inst :
       ( /\ Mounted(i) /\ props[i].shouldBlock /\ props[i].timeout > 0
         /\ SoleHolderOf(i, IdOf(i)) /\ IdOf(i) \in DOMAIN activeBlockers ) =>
       (IdOf(i) \in DOMAIN timers /\ timers[IdOf(i)] = i)
  /\ last.kind = "timeout" =>
       /\ last.ops = <<Call("onTimeout", last.id, last.inst, TRUE)>>
       /\ last.id \notin DOMAIN activeBlockers
       /\ last.id \notin DOMAIN timers
       /\ last.id = IdOf(last.inst)
       /\ props[last.inst].src = QueryTest =>
            last.id = [prefix |-> "query", hash |-> <<Prim("test")>>, token |-> 0]

(* the timeout of a still loading useBlockingQuery(["test"]) has elapsed *)
C6_Witness ==
  /\ last.kind = "timeout" /\ last.ops # <<>>
  /\ Mounted(last.inst) /\ props[last.inst].src = QueryTest
  /\ props[last.inst].shouldBlock
  /\ last.id \notin DOMAIN activeBlockers

(* ------------------------------------------------------------------------ *)
(* C7: a removal by the manager (shouldBlock false, unmount) never invokes   *)
(* onTimeout, neither in that step nor later: no timer outlives the          *)
(* creation it was started for.                                              *)
(* ------------------------------------------------------------------------ *)
C7_OnTimeoutOnlyOnExpiry ==
  /\ last.kind # "timeout" => Issued(last.ops, "onTimeout") = {}
  /\ \A id \in DOMAIN timers :
       /\ id \in DOMAIN activeBlockers
       /\ Mounted(timers[id]) /\ wasBlockedRef[timers[id]]
       /\ effectId[timers[id]] = id
       /\ props[timers[id]].shouldBlock /\ props[timers[id]].timeout > 0

(* an unmount removed an entry whose timer was still pending *)
C7_Witness ==
  /\ last.kind = "unmount"
  /\ last.ops = <<Call("removeBlocker", last.id, last.inst, TRUE)>>
  /\ last.id \notin DOMAIN timers

(* ------------------------------------------------------------------------ *)
(* C8: when an instance whose entry was removed by a not-blocking render     *)
(* blocks again, the effect creates a new entry with addBlocker carrying     *)
(* timeout/onTimeout; no timer of the earlier window is pending, the new     *)
(* window is the only one.                                                   *)
(* ------------------------------------------------------------------------ *)
C8_RecreationStartsNewWindow ==
  [][\A i \in Inst :
       ( /\ Mounted(i) /\ hist.removed[i] /\ ~props[i].shouldBlock
         /\ last'.kind = "effect" /\ last'.inst = i /\ props'[i].shouldBlock ) =>
       /\ \A id \in DOMAIN timers : timers[id] # i
       /\ last'.ops = <<Call("addBlocker", last'.id, i, props'[i].timeout > 0)>>
       /\ last'.id \in DOMAIN activeBlockers'
       /\ props'[i].timeout > 0 =>
            (last'.id \in DOMAIN timers' /\ timers'[last'.id] = i)]_vars

(* a re-created entry with its own timer *)
C8_Witness ==
  \E i \in Inst :
    /\ hist.removed[i] /\ last.kind = "effect" /\ last.inst = i
    /\ last.ops = <<Call("addBlocker", last.id, i, TRUE)>>
    /\ last.id \in DOMAIN timers /\ timers[last.id] = i

(* ------------------------------------------------------------------------ *)
(* C9: the entry of a shared identity carries the scope, reason and priority *)
(* of the instance whose effect most recently ran with shouldBlock true; it  *)
(* is never a mixture of the metadata of different instances.                *)
(* ------------------------------------------------------------------------ *)
C9_LastWriterWins ==
  \A id \in DOMAIN activeBlockers :
    /\ id \in DOMAIN hist.writer
    /\ Mounted(hist.writer[id]) /\ IdOf(hist.writer[id]) = id
    /\ activeBlockers[id] = MetaOf(props[hist.writer[id]])

(* two instances block under one identity with different metadata *)
C9_Witness ==
  \E i, j \in Inst :
    /\ i # j /\ Mounted(i) /\ Mounted(j) /\ IdOf(i) = IdOf(j)
    /\ props[i].shouldBlock /\ props[j].shouldBlock
    /\ MetaOf(props[i]) # MetaOf(props[j])
    /\ IdOf(i) \in DOMAIN activeBlockers
    /\ hist.writer[IdOf(i)] = j /\ activeBlockers[IdOf(i)] = MetaOf(props[j])

(* ------------------------------------------------------------------------ *)
(* C10: two useBlockingMutation instances whose mutationKeys are             *)
(* structurally equal have one identity and at most one registry entry       *)
(* between them; exactly one right after the effect of one of them ran       *)
(* while both are pending.                                                   *)
(* ------------------------------------------------------------------------ *)
PropSet(e) == {e.props[n] : n \in 1..Len(e.props)}

StructurallyEqual(k1, k2) ==
  /\ Len(k1) = Len(k2)
  /\ \A n \in 1..Len(k1) :
       /\ k1[n].kind = k2[n].kind /\ k1[n].prim = k2[n].prim
       /\ Len(k1[n].props) = Len(k2[n].props)
       /\ PropSet(k1[n]) = PropSet(k2[n])

EntriesOf(i, j) == {id \in DOMAIN activeBlockers : id \in {IdOf(i), IdOf(j)}}

C10_OneEntryPerIdentity ==
  \A i, j \in Inst :
    ( /\ i # j /\ Mounted(i) /\ Mounted(j)
      /\ props[i].src.variant = "mutation" /\ props[j].src.variant = "mutation"
      /\ props[i].src.hasKey /\ props[j].src.hasKey
      /\ StructurallyEqual(props[i].src.key, props[j].src.key) ) =>
    /\ IdOf(i) = IdOf(j)
    /\ Cardinality(EntriesOf(i, j)) <= 1
    /\ (EffectRan(i) /\ props[i].shouldBlock /\ props[j].shouldBlock) =>
         Cardinality(EntriesOf(i, j)) = 1

(* both pending, keys equal up to property order, one entry *)
C10_Witness ==
  \E i, j \in Inst :
    /\ Mounted(i) /\ Mounted(j)
    /\ props[i].src = MutationUser /\ props[j].src = MutationUserReordered
    /\ props[i].shouldBlock /\ props[j].shouldBlock
    /\ EffectRan(i)
    /\ Cardinality({id \in DOMAIN activeBlockers : activeBlockers[id].scope = "test"}) = 1

(* an instance whose adapter was given no key: its identity is ephemeral *)
Ephemeral(i) == Mounted(i) /\ ~props[i].src.hasKey

(* C11: two live instances with an ephemeral identity (useBlockingMutation   *)
(* without mutationKey, useBlockingQueries) have different identities, even  *)
(* with identical configuration, and when both block the registry holds one  *)
(* entry for each of them.                                                   *)
C11_EphemeralNeverShared ==
  \A i, j \in Inst :
    (i # j /\ Ephemeral(i) /\ Ephemeral(j)) =>
      /\ effectId[i] # effectId[j]
      /\ (props[i].shouldBlock /\ props[j].shouldBlock) =>
            /\ effectId[i] \in DOMAIN activeBlockers
            /\ effectId[j] \in DOMAIN activeBlockers

C11_Witness ==
  /\ Ephemeral(1) /\ Ephemeral(2)
  /\ props[1] = props[2]
  /\ props[1].src = MutationNoKey
  /\ props[1].shouldBlock
  /\ Cardinality(DOMAIN activeBlockers) = 2

(* two live instances of one adapter variant, each given a key *)
KeyedPair(i, j) ==
  /\ i # j /\ Mounted(i) /\ Mounted(j)
  /\ props[i].src.hasKey /\ props[j].src.hasKey
  /\ props[i].src.variant = props[j].src.variant

(* C12: for a given prefix, structurally equal keys give the same identity, *)
(* whatever the insertion order of the properties of their objects.         *)
C12_EqualKeysSameIdentity ==
  \A i, j \in Inst :
    (KeyedPair(i, j) /\ StructurallyEqual(props[i].src.key, props[j].src.key))
      => effectId[i] = effectId[j]

C12_Witness ==
  /\ KeyedPair(1, 2)
  /\ props[1].src = QueryUser
  /\ props[2].src = QueryUserReordered
  /\ props[1].src.key # props[2].src.key
  /\ effectId[1] = effectId[2]

(* source a carries no key that is structurally equal to the key of source b *)
KeyDiffers(a, b) == ~a.hasKey \/ ~StructurallyEqual(a.key, b.key)

(* C13: structurally different keys give different identities, and the      *)
(* entries are separate: a step of an instance whose key differs from the   *)
(* key of another instance leaves that instance's entry as it was, and a    *)
(* blocking effect run leaves an entry under the instance's own identity.   *)
C13_DifferentKeysSeparateEntries ==
  /\ [](\A i, j \in Inst :
          (KeyedPair(i, j) /\ KeyDiffers(props[i].src, props[j].src))
            => effectId[i] # effectId[j])
  /\ [][\A i, j \in Inst :
          ( /\ i # j /\ last'.inst = i
            /\ last'.kind \in {"mount", "effect", "unmount"}
            /\ Mounted(j) /\ props[j].src.hasKey
            /\ KeyDiffers(props[i].src, props[j].src)
            /\ KeyDiffers(props'[i].src, props[j].src) )
          => /\ (effectId[j] \in DOMAIN activeBlockers)
                  <=> (effectId[j] \in DOMAIN activeBlockers')
             /\ effectId[j] \in DOMAIN activeBlockers
                  => activeBlockers'[effectId[j]] = activeBlockers[effectId[j]]
             /\ (last'.kind # "unmount" /\ props'[i].shouldBlock)
                  => effectId'[i] \in DOMAIN activeBlockers']_vars

C13_Witness ==
  /\ KeyedPair(1, 2)
  /\ props[1].src = QueryTest1 /\ props[1].shouldBlock
  /\ props[2].src = QueryTest2 /\ props[2].shouldBlock
  /\ DOMAIN activeBlockers = {effectId[1], effectId[2]}
  /\ effectId[1] # effectId[2]

Applicable(config) ==
  {k \in DOMAIN config.stateReasons :
     config.stateReasons[k].condition /\ config.stateReasons[k].reason # Undefined}

Pair(condition, reason) == [condition |-> condition, reason |-> reason]

(* C15: resolveBlockingReason returns the reason of the first pair whose     *)
(* condition is true and whose reason is defined, and defaultReason when     *)
(* there is no such pair; the adapter's entry carries that reason.           *)
C15_FirstApplicableReason ==
  Mounted(1) =>
    LET config == props[1].reasonConfig
        hits == Applicable(config)
    IN /\ hits = {} => props[1].reason = config.defaultReason
       /\ \A k \in hits :
            (\A h \in hits : k <= h) => props[1].reason = config.stateReasons[k].reason
       /\ activeBlockers[effectId[1]].reason = props[1].reason

C15_Witness ==
  /\ Mounted(1)
  /\ props[1].reasonConfig.stateReasons =
       <<Pair(FALSE, "A"), Pair(TRUE, Undefined), Pair(TRUE, "C")>>
  /\ activeBlockers[effectId[1]].reason = "C"

(* a toggle is on: given as true, or not given with a default of true *)
On(toggle, default) == toggle = Given(TRUE) \/ (toggle = NotGiven /\ default)

(* C16: for the read adapter shouldBlock is (onLoading and isLoading) or     *)
(* (onFetching and isFetching and not isLoading) or (onError and isError),   *)
(* for every combination of flags and toggles, with onLoading on and         *)
(* onFetching and onError off by default; the registry follows it, and with  *)
(* onLoading false and the others at their default there is no entry.        *)
C16_QueryShouldBlock ==
  Mounted(1) =>
    LET c == props[1].config
        q == props[1].result
        expected ==
          \/ On(c.onLoading, TRUE) /\ q.isLoading
          \/ On(c.onFetching, FALSE) /\ q.isFetching /\ ~q.isLoading
          \/ On(c.onError, FALSE) /\ q.isError
    IN /\ props[1].shouldBlock <=> expected
       /\ (effectId[1] \in DOMAIN activeBlockers) <=> expected
       /\ ( /\ c.onLoading = Given(FALSE)
            /\ c.onFetching = NotGiven /\ c.onError = NotGiven )
          => effectId[1] \notin DOMAIN activeBlockers

C16_Witness ==
  /\ Mounted(1)
  /\ props[1].config.onLoading = Given(FALSE)
  /\ props[1].config.onFetching = Given(TRUE)
  /\ props[1].config.onError = NotGiven
  /\ props[1].result = QueryResult(TRUE, TRUE, FALSE)
  /\ ~props[1].shouldBlock
  /\ last.kind = "effect"
  /\ Issued(last.ops, "removeBlocker") # {}

(* the entry of instance i is in the registry *)
HasEntry(i) == effectId[i] \in DOMAIN activeBlockers

(* C17: a read adapter with the default configuration holds an entry with    *)
(* reason "Loading data..." and priority 10 while its query is in the first  *)
(* load; once the query has resolved the entry is absent, and it stays       *)
(* absent through later background refetches and failures for as long as     *)
(* onFetching and onError are at their default.                              *)
C17_FirstLoadOnly ==
  /\ [](Mounted(1) =>
         LET c == props[1].config
             q == props[1].result
         IN /\ ( /\ q.isLoading /\ c.onLoading = NotGiven /\ c.priority = NotGiven
                 /\ c.reason = Undefined /\ c.reasonOnLoading = Undefined )
               => /\ HasEntry(1)
                  /\ activeBlockers[effectId[1]].reason = "Loading data..."
                  /\ activeBlockers[effectId[1]].priority = 10
            /\ (~q.isLoading /\ c.onFetching = NotGiven /\ c.onError = NotGiven)
               => ~HasEntry(1))
  /\ [][( /\ Mounted(1) /\ ~props[1].result.isLoading /\ Mounted(1)'
          /\ props'[1].config.onFetching = NotGiven
          /\ props'[1].config.onError = NotGiven )
        => (~props'[1].result.isLoading /\ ~HasEntry(1)')]_vars

C17_Witness ==
  /\ Mounted(1)
  /\ props[1].config = QueryConfig(NotGiven, NotGiven, NotGiven, Undefined,
                                   Undefined, Undefined, Undefined, NotGiven)
  /\ props[1].result = FailedRefetching
  /\ ~HasEntry(1)
  /\ last.kind = "effect"

(* the first of the given strings, the last one being always given *)
FirstGiven(a, b, c) == IF a # Undefined THEN a ELSE IF b # Undefined THEN b ELSE c

(* C18: a write adapter with onError true holds an entry while its mutation  *)
(* is pending, with reason reasonOnPending (or reason, or the default);      *)
(* after the mutation is rejected the entry is still present, without an     *)
(* intermediate absent state, with reason reasonOnError (or reason, or the   *)
(* default).                                                                 *)
C18_ErrorKeepsEntry ==
  /\ [](( /\ Mounted(1) /\ props[1].config.onError = Given(TRUE)
          /\ props[1].result.isPending )
        => /\ HasEntry(1)
           /\ activeBlockers[effectId[1]].reason =
                FirstGiven(props[1].config.reasonOnPending, props[1].config.reason,
                           "Saving changes..."))
  /\ [](( /\ Mounted(1) /\ props[1].config.onError = Given(TRUE)
          /\ props[1].result.isError )
        => /\ HasEntry(1)
           /\ activeBlockers[effectId[1]].reason =
                FirstGiven(props[1].config.reasonOnError, props[1].config.reason,
                           "Saving changes..."))
  /\ [][( /\ Mounted(1) /\ props[1].config.onError = Given(TRUE)
          /\ props[1].result.isPending
          /\ Mounted(1)' /\ props'[1].config = props[1].config
          /\ props'[1].result.isError )
        => Issued(last'.ops, "removeBlocker") = {}]_vars

(* C19: a write adapter with onError false or omitted blocks exactly while   *)
(* its mutation is pending: the entry, with reason "Saving changes..." and   *)
(* priority 30 by default, exists while the mutation is pending and is       *)
(* absent once it has settled; no configuration disables the pending         *)
(* trigger.                                                                  *)
C19_PendingOnly ==
  Mounted(1) =>
    LET c == props[1].config
        m == props[1].result
    IN /\ c.onError \in {NotGiven, Given(FALSE)}
            => /\ props[1].shouldBlock <=> m.isPending
               /\ HasEntry(1) <=> m.isPending
       /\ m.isPending
            => /\ HasEntry(1)
               /\ activeBlockers[effectId[1]].reason =
                    FirstGiven(c.reasonOnPending, c.reason, "Saving changes...")
               /\ activeBlockers[effectId[1]].priority = 30

C19_Witness ==
  /\ Mounted(1)
  /\ props[1].config.onError = NotGiven
  /\ props[1].config.reason = Undefined
  /\ props[1].result.status = "error"
  /\ ~HasEntry(1)
  /\ last.kind = "effect"
  /\ Issued(last.ops, "removeBlocker") # {}

(* C20: a batch adapter owns at most one registry entry for its whole batch  *)
(* in every state, and no step adds more than one; with onLoading on the     *)
(* entry is present while at least one member is loading, and it is absent   *)
(* once every member has resolved (onFetching and onError being off).        *)
C20_OneEntryPerBatch ==
  /\ [](/\ DOMAIN activeBlockers \subseteq {effectId[1]}
        /\ Mounted(1) =>
             LET c == props[1].config
                 r == props[1].result
                 loading == \E k \in DOMAIN r : r[k].isLoading
             IN /\ (On(c.onLoading, TRUE) /\ loading) => HasEntry(1)
                /\ ( /\ On(c.onLoading, TRUE) /\ ~loading
                     /\ ~On(c.onFetching, FALSE) /\ ~On(c.onError, FALSE) )
                   => ~HasEntry(1))
  /\ [][Cardinality(Issued(last'.ops, "addBlocker")) <= 1]_vars

C20_Witness ==
  /\ Mounted(1)
  /\ props[1].config.onLoading = Given(TRUE)
  /\ Len(props[1].result) = 2
  /\ props[1].result[1] = Success
  /\ props[1].result[2] = Loading
  /\ HasEntry(1)
  /\ Cardinality(DOMAIN activeBlockers) = 1
  /\ last.kind = "effect"

(* C21: for the batch adapter shouldBlock is (onLoading and some member is   *)
(* loading) or (onFetching and some member is fetching and not loading) or   *)
(* (onError and some member is in error), for every batch and every toggle   *)
(* combination, and the registry follows it; for the empty batch shouldBlock *)
(* is false under every configuration and no registry operation is issued.   *)
C21_BatchShouldBlock ==
  Mounted(1) =>
    LET c == props[1].config
        r == props[1].result
        expected ==
          \/ On(c.onLoading, TRUE) /\ \E k \in DOMAIN r : r[k].isLoading
          \/ On(c.onFetching, FALSE)
               /\ \E k \in DOMAIN r : r[k].isFetching /\ ~r[k].isLoading
          \/ On(c.onError, FALSE) /\ \E k \in DOMAIN r : r[k].isError
    IN /\ props[1].shouldBlock <=> expected
       /\ HasEntry(1) <=> expected
       /\ r = <<>> => (~props[1].shouldBlock /\ ~HasEntry(1) /\ last.ops = <<>>)

C21_Witness ==
  /\ Mounted(1)
  /\ props[1].config.onLoading = Given(FALSE)
  /\ props[1].config.onFetching = Given(TRUE)
  /\ props[1].config.onError = NotGiven
  /\ props[1].result = <<Loading, Success>>
  /\ ~HasEntry(1)
  /\ last.kind = "effect"

(* C22: for the paginated read adapter the fetching condition is (isFetching *)
(* or isFetchingNextPage or isFetchingPreviousPage) and not isLoading, and   *)
(* shouldBlock is (onLoading and isLoading) or (onFetching and that          *)
(* condition) or (onError and isError); with the default configuration no    *)
(* render after the first load, a next-page or previous-page fetch included, *)
(* creates an entry.                                                         *)
C22_InfiniteShouldBlock ==
  /\ [](Mounted(1) =>
         LET c == props[1].config
             q == props[1].result
             fetching ==
               (q.isFetching \/ q.isFetchingNextPage \/ q.isFetchingPreviousPage)
                 /\ ~q.isLoading
             expected ==
               \/ On(c.onLoading, TRUE) /\ q.isLoading
               \/ On(c.onFetching, FALSE) /\ fetching
               \/ On(c.onError, FALSE) /\ q.isError
         IN /\ props[1].shouldBlock <=> expected
            /\ HasEntry(1) <=> expected)
  /\ [][( /\ last'.inst = 1 /\ last'.kind \in {"mount", "effect"}
          /\ props'[1].config.onLoading = NotGiven
          /\ props'[1].config.onFetching = NotGiven
          /\ props'[1].config.onError = NotGiven
          /\ ~props'[1].result.isLoading )
        => (Issued(last'.ops, "addBlocker") = {} /\ ~HasEntry(1)')]_vars

C22_Witness ==
  /\ Mounted(1)
  /\ props[1].config.onLoading = NotGiven
  /\ props[1].config.onFetching = NotGiven
  /\ props[1].config.onError = NotGiven
  /\ props[1].result = InfiniteResult(FALSE, TRUE, TRUE, FALSE, FALSE)
  /\ ~HasEntry(1)
  /\ last.kind = "effect"
  /\ Issued(last.ops, "removeBlocker") # {}

(* a read adapter with onError true and reasonOnError given, its query in   *)
(* error state and its entry present                                        *)
ErrorReasonCase(i) ==
  /\ Mounted(i)
  /\ props[i].config.onError = Given(TRUE)
  /\ props[i].config.reasonOnError # Undefined
  /\ props[i].result.isError
  /\ HasEntry(i)

(* C23: for a read adapter with onError true and reasonOnError given, in     *)
(* every state in which the query is in error state and an entry is present  *)
(* the reason of the entry is reasonOnError, whatever the other flags and    *)
(* the other configured reasons.                                             *)
C23_ErrorReasonAlways ==
  ErrorReasonCase(1) =>
    activeBlockers[effectId[1]].reason = props[1].config.reasonOnError

(* C23, amended: the reason of the entry is reasonOnError unless the query   *)
(* is also fetching (a refetch after the failure) and reasonOnFetching is    *)
(* given, in which case it is reasonOnFetching: the fetching pair comes      *)
(* before the error pair.                                                    *)
C23_ErrorReasonUnlessFetching ==
  ErrorReasonCase(1) =>
    LET c == props[1].config
        q == props[1].result
    IN activeBlockers[effectId[1]].reason =
         IF q.isFetching /\ ~q.isLoading /\ c.reasonOnFetching # Undefined
         THEN c.reasonOnFetching
         ELSE c.reasonOnError

C23_Witness ==
  /\ ErrorReasonCase(1)
  /\ props[1].result = FailedRefetching
  /\ props[1].config.reasonOnFetching = Undefined
  /\ props[1].config.reason = "A"
  /\ activeBlockers[effectId[1]].reason = "D"

(* the last step was an effect run or the final cleanup of instance i *)
StepOf(i) == last.inst = i /\ last.kind \in {"mount", "effect", "unmount"}

(* C24: an effect run with shouldBlock false, or a cleanup, on an instance   *)
(* whose private flag is false issues no registry operation at all and       *)
(* leaves the registry as it was; hence an instance removes an entry only    *)
(* when its flag says that it created one itself.                            *)
C24_NoNeedlessRemoval ==
  [][\A i \in Inst :
       StepOf(i)' =>
         /\ (~wasBlockedRef[i] /\ (last'.kind = "unmount" \/ ~props'[i].shouldBlock))
              => /\ last'.ops = <<>>
                 /\ activeBlockers' = activeBlockers
                 /\ timers' = timers
         /\ Issued(last'.ops, "removeBlocker") # {} => wasBlockedRef[i]]_vars

C24_Witness ==
  /\ last.kind = "effect" /\ last.inst = 2 /\ last.ops = <<>>
  /\ Mounted(1) /\ Mounted(2)
  /\ ~props[2].shouldBlock
  /\ props[1].shouldBlock
  /\ effectId[1] = effectId[2]
  /\ HasEntry(1)

(* the entry and the timer stored under id are the same before and after a step *)
Untouched(id) ==
  /\ (id \in DOMAIN activeBlockers) <=> (id \in DOMAIN activeBlockers')
  /\ id \in DOMAIN activeBlockers => activeBlockers'[id] = activeBlockers[id]
  /\ (id \in DOMAIN timers) <=> (id \in DOMAIN timers')
  /\ id \in DOMAIN timers => timers'[id] = timers[id]

(* C25: every registry operation of an instance targets the identity of that *)
(* instance (the one its last effect run captured, or the one of the run     *)
(* that issues it), and a timeout concerns one identity: the entries and     *)
(* timers under every other identity are left as they were.                  *)
C25_OnlyOwnIdentity ==
  [][/\ \A i \in Inst :
          StepOf(i)' =>
            /\ \A k \in DOMAIN last'.ops :
                 /\ last'.ops[k].id \in {effectId[i], effectId'[i]}
                 /\ last'.ops[k].by = i
            /\ \A id \in (DOMAIN activeBlockers \cup DOMAIN timers)
                           \ {effectId[i], effectId'[i]} : Untouched(id)
     /\ last'.kind = "timeout" =>
          \A id \in (DOMAIN activeBlockers \cup DOMAIN timers) \ {last'.id} :
             Untouched(id)]_vars

C25_Witness ==
  /\ last.kind = "unmount" /\ last.inst = 1
  /\ Issued(last.ops, "removeBlocker") # {}
  /\ Mounted(2)
  /\ last.id # effectId[2]
  /\ HasEntry(2)

C27_AlwaysAddNeverUpdate ==
  [][\A i \in Inst :
       (last'.inst = i /\ last'.kind \in {"mount", "effect"}) =>
         LET ops == last'.ops
         IN /\ Issued(ops, "updateBlocker") = {}
            /\ wasBlockedRef[i] =>
                 (ops # <<>> /\ ops[1] = Call("removeBlocker", effectId[i], i,
                                               effectId[i] \in DOMAIN timers))
            /\ props'[i].shouldBlock =>
                 /\ ops # <<>>
                 /\ ops[Len(ops)] = Call("addBlocker", effectId'[i], i,
                                         props'[i].timeout > 0)
                 /\ Len(ops) = IF wasBlockedRef[i] THEN 2 ELSE 1
                 /\ wasBlockedRef'[i]]_vars

C27_Witness ==
  /\ last.kind = "effect"
  /\ Len(last.ops) = 2
  /\ last.ops[1].op = "removeBlocker"
  /\ last.ops[2].op = "addBlocker"
  /\ last.ops[2].timed
  /\ last.ops[1].id = last.ops[2].id

(* instance i blocks and has its flag set, but its entry is gone: the        *)
(* timeout has removed it                                                    *)
Expired(i) ==
  /\ Mounted(i) /\ props[i].shouldBlock /\ wasBlockedRef[i]
  /\ ~HasEntry(i)

(* C28: after the timeout has removed the entry of an instance that still    *)
(* blocks, a render without a changed dependency leaves the entry absent;    *)
(* the next effect run calls removeBlocker on the absent entry (the cleanup, *)
(* the flag being still set) and, shouldBlock being true, re-creates the     *)
(* entry with addBlocker and a fresh timeout.                                *)
C28_RecreatedAfterExpiry ==
  [][\A i \in Inst :
       (Expired(i) /\ last'.inst = i) =>
         /\ last'.kind = "render" => (Expired(i)' /\ last'.ops = <<>>)
         /\ (last'.kind = "effect" /\ props'[i].shouldBlock) =>
              /\ last'.ops = << Call("removeBlocker", effectId[i], i, FALSE),
                                Call("addBlocker", effectId'[i], i, TRUE) >>
              /\ HasEntry(i)'
              /\ effectId'[i] \in DOMAIN timers']_vars

C28_Witness ==
  /\ last.kind = "effect" /\ last.inst = 1
  /\ \A j \in Inst \ {1} : status[j] = "new"
  /\ props[1].shouldBlock
  /\ last.ops = << Call("removeBlocker", effectId[1], 1, FALSE),
                   Call("addBlocker", effectId[1], 1, TRUE) >>
  /\ HasEntry(1)

(* C29: when the key of an instance changes between two renders in which it  *)
(* blocks, the cleanup removes the entry under the old identity, the one the *)
(* previous effect run captured, before the new run creates the entry under  *)
(* the new identity: after the step no entry remains under the old identity  *)
(* and the instance never owns two entries.                                  *)
C29_KeyChangeMovesEntry ==
  [][\A i \in Inst :
       ( /\ last'.inst = i /\ last'.kind = "effect"
         /\ props[i].shouldBlock /\ wasBlockedRef[i] /\ props'[i].shouldBlock
         /\ ~StructurallyEqual(props[i].src.key, props'[i].src.key) )
       => /\ effectId'[i] # effectId[i]
          /\ last'.ops = << Call("removeBlocker", effectId[i], i, FALSE),
                            Call("addBlocker", effectId'[i], i, FALSE) >>
          /\ effectId[i] \notin DOMAIN activeBlockers'
          /\ effectId'[i] \in DOMAIN activeBlockers']_vars

C29_Witness ==
  /\ last.kind = "effect" /\ last.inst = 1
  /\ Len(last.ops) = 2
  /\ last.ops[1].op = "removeBlocker"
  /\ last.ops[2].op = "addBlocker"
  /\ last.ops[1].id # last.ops[2].id
  /\ last.ops[2].id = effectId[1]
  /\ last.ops[1].id \notin DOMAIN activeBlockers
  /\ HasEntry(1)

(* a blockingConfig without its trigger toggles *)
WithoutToggles(config) ==
  [f \in DOMAIN config \ {"onLoading", "onFetching", "onError"} |-> config[f]]

(* C30: in all four adapters the resolved reason depends on the state flags  *)
(* and the configured reasons only: a render that changes nothing but the    *)
(* trigger toggles leaves the reason as it was. So an entry that exists      *)
(* because of one trigger can carry the reason of a disabled one: a read     *)
(* adapter with onFetching false and onError true, its query in error state  *)
(* and fetching without loading, has an entry with reasonOnFetching when     *)
(* that reason is given.                                                     *)
C30_ReasonIgnoresToggles ==
  /\ [][( /\ Mounted(1) /\ Mounted(1)'
          /\ props'[1].src = props[1].src
          /\ props'[1].result = props[1].result
          /\ WithoutToggles(props'[1].config) = WithoutToggles(props[1].config) )
        => props'[1].reason = props[1].reason]_vars
  /\ [](( /\ Mounted(1) /\ props[1].src.variant = "query"
          /\ props[1].config.onFetching = Given(FALSE)
          /\ props[1].config.onError = Given(TRUE)
          /\ props[1].result = FailedRefetching
          /\ props[1].config.reasonOnFetching # Undefined )
        => /\ HasEntry(1)
           /\ activeBlockers[effectId[1]].reason = props[1].config.reasonOnFetching)

C30_Witness ==
  /\ Mounted(1) /\ props[1].src.variant = "query"
  /\ props[1].config.onFetching = Given(FALSE)
  /\ props[1].config.onError = Given(TRUE)
  /\ props[1].config.reasonOnError = "D"
  /\ props[1].result = FailedRefetching
  /\ HasEntry(1)
  /\ activeBlockers[effectId[1]].reason = "C"
  /\ last.kind = "effect"

(* the calls of ops that are not a removeBlocker of an absent entry, when   *)
(* the identities in present have an entry before the first call            *)
RECURSIVE Effective(_, _)
Effective(ops, present) ==
  IF ops = <<>> THEN <<>>
  ELSE LET c == Head(ops)
       IN IF c.op = "removeBlocker" /\ c.id \notin present
          THEN Effective(Tail(ops), present)
          ELSE <<c>> \o Effective(Tail(ops),
                                  IF c.op = "addBlocker" THEN present \cup {c.id}
                                  ELSE present \ {c.id})

(* C31: for one instance without timeout the manager with the flag and the  *)
(* earlier manager without it hold the same registry, entry for entry, after *)
(* every effect run and after unmount; the calls of the earlier manager are  *)
(* those of the current one plus removeBlocker calls on absent entries.      *)
C31_SameRegistryAsEarlier ==
  /\ [](activeBlockers = hist.earlier.blockers)
  /\ [][last'.kind \in {"mount", "effect", "unmount"}
        => Effective(hist'.earlier.ops, DOMAIN hist.earlier.blockers) = last'.ops]_vars

C31_Witness ==
  /\ last.kind = "effect"
  /\ HasEntry(1)
  /\ activeBlockers = hist.earlier.blockers
  /\ Len(last.ops) = 1
  /\ Len(hist.earlier.ops) = 2

(* the reason the inline selection of the earlier revision gives instance i *)
InlineReason(i) ==
  IF props[i].src.variant = "query"
  THEN currentReasonInlineQuery(props[i].config, props[i].result)
  ELSE currentReasonInlineMutation(props[i].config, props[i].result)

(* C32: for every combination of the state flags and of given and missing   *)
(* reasons, the reason the current single-read and write adapters resolve    *)
(* with resolveBlockingReason, and register, is the one the inline           *)
(* if / else-if selection of their earlier revisions gives.                  *)
C32_InlineSameReason ==
  Mounted(1) =>
    /\ props[1].reason = InlineReason(1)
    /\ HasEntry(1) => activeBlockers[effectId[1]].reason = InlineReason(1)

C32_Witness ==
  /\ Mounted(1) /\ last.kind = "effect"
  /\ props[1].src.variant = "query"
  /\ props[1].result = QueryResult(TRUE, FALSE, TRUE)
  /\ props[1].config.reasonOnLoading = Undefined
  /\ props[1].config.reasonOnFetching = "C"
  /\ props[1].config.reasonOnError = "D"
  /\ HasEntry(1)
  /\ activeBlockers[effectId[1]].reason = "D"
  /\ InlineReason(1) = "D"

(* the single-read, the paginated-read and the write adapter *)
KeyedVariants == {"query", "infinite-query", "mutation"}

(* C33: the identities of a single-read, a paginated-read and a write       *)
(* adapter are different strings whatever their keys, the write adapter      *)
(* without a key included; so a step of an adapter of one variant leaves the *)
(* entry of an adapter of another variant as it was, and its own blocking    *)
(* effect run leaves an entry under its own identity.                        *)
C33_VariantsNeverCoincide ==
  /\ [](\A i, j \in Inst :
          ( /\ Mounted(i) /\ Mounted(j)
            /\ props[i].src.variant \in KeyedVariants
            /\ props[j].src.variant \in KeyedVariants
            /\ props[i].src.variant # props[j].src.variant )
          => /\ IdText(effectId[i]) # IdText(effectId[j])
             /\ effectId[i] # effectId[j])
  /\ [][\A i, j \in Inst :
          ( /\ i # j /\ last'.inst = i
            /\ last'.kind \in {"mount", "effect", "unmount"}
            /\ Mounted(j)
            /\ props[j].src.variant \in KeyedVariants
            /\ (IF last'.kind = "unmount" THEN props[i] ELSE props'[i]).src.variant
                  \in KeyedVariants \ {props[j].src.variant} )
          => /\ Untouched(effectId[j])
             /\ (last'.kind # "unmount" /\ props'[i].shouldBlock)
                  => effectId'[i] \in DOMAIN activeBlockers']_vars

C33_Witness ==
  /\ Mounted(1) /\ Mounted(2)
  /\ props[1].src = QueryTest /\ props[1].shouldBlock
  /\ props[2].src = InfiniteKeyTest /\ props[2].shouldBlock
  /\ IdText(effectId[1]) = <<"q", "u", "e", "r", "y", "-", "[", "\"", "test", "\"", "]">>
  /\ IdText(effectId[1]) # IdText(effectId[2])
  /\ DOMAIN activeBlockers = {effectId[1], effectId[2]}

(* the calls of ops alternate, starting from balance b: an addBlocker comes *)
(* at balance 0, a removeBlocker at balance 1                               *)
RECURSIVE Alternates(_, _)
Alternates(ops, b) ==
  IF ops = <<>> THEN TRUE
  ELSE IF Head(ops).op = "addBlocker" THEN b = 0 /\ Alternates(Tail(ops), 1)
  ELSE IF Head(ops).op = "removeBlocker" THEN b = 1 /\ Alternates(Tail(ops), 0)
  ELSE Alternates(Tail(ops), b)

(* C34: for each instance the addBlocker calls it has issued less its        *)
(* removeBlocker calls are 1 when wasBlockedRef is true and 0 when it is     *)
(* false; its calls alternate: no removeBlocker without an unmatched         *)
(* addBlocker of its own before it, no two addBlocker calls without a        *)
(* removeBlocker in between.                                                 *)
C34_FlagBalance ==
  /\ [](\A i \in Inst : hist.balance[i] = IF wasBlockedRef[i] THEN 1 ELSE 0)
  /\ [][\A i \in Inst :
          (last'.inst = i /\ last'.kind \in {"mount", "effect", "unmount"})
            => Alternates(last'.ops, hist.balance[i])]_vars

C34_Witness ==
  /\ last.kind = "effect" /\ last.inst = 1
  /\ Len(last.ops) = 2
  /\ last.ops[1].op = "removeBlocker" /\ last.ops[2].op = "addBlocker"
  /\ wasBlockedRef[1] /\ hist.balance[1] = 1
  /\ Mounted(2) /\ ~wasBlockedRef[2] /\ hist.balance[2] = 0

====
